---- MODULE Spec2Model ----
(***************************************************************************)
(* Model of the client-side multi-factor validation state machine of       *)
(* BioSync: the biometric animation script (validation controller, both    *)
(* stores, consistency checker, car-door animation sequencer, page-load    *)
(* replay) and the identity check of the welcome animation.                *)
(***************************************************************************)
EXTENDS Integers, Sequences, FiniteSets, TLC

\* ------------------------------------------------------------------ bounds
\* cap on the number of success sequences in flight, and on the number of
\* pending clean-up timers
MaxTimers == 1
\* results are reported for the first MaxReported biometric types
MaxReported == 2

\* --------------------------------------------------------------- constants
\* key order of the object literals that initialise the three maps
Factors == <<"face", "voice", "retina", "proximity">>

FactorSet == {Factors[i] : i \in 1..Len(Factors)}

\* the types for which results are reported in the model: the first
\* MaxReported keys (the controller treats all keys alike) and one that is
\* not a key
ReportedTypes == {Factors[i] : i \in {j \in 1..Len(Factors) : j <= MaxReported}} \cup {"iris"}

\* ------------------------------------------------------- JavaScript values
\* a user id is null, a number n or the string holding the decimal text of n
Null == <<"null", 0>>

Num(n) == <<"num", n>>

Str(n) == <<"str", n>>

\* the ids reported in the model: none, a number, the string of the same
\* text and a string of another text
UserIds == {Null, Num(7), Str(7), Str(8)}

\* String(v): a number becomes its decimal text, a string is itself, and
\* null becomes the text "null" (written Str(0), no id has that text)
String(v) == IF v[1] = "num" THEN Str(v[2]) ELSE IF v[1] = "null" THEN Str(0) ELSE v

\* a !== b : no conversion, values of different types always differ
StrictNotEqual(a, b) == a[1] # b[1] \/ a[2] # b[2]

\* ------------------------------------------------------ JavaScript objects
\* the maps are plain objects: beside its own keys an object has the
\* properties it inherits from Object.prototype, which are functions
InheritedNames == {"constructor", "toString"}

\* the order in which Object.keys, Object.entries and for-in visit the own
\* keys: the keys of the literal first, then added keys (the order among
\* added keys has no bearing on any result computed from it)
KeyOrder == Factors \o <<"constructor", "toString">>

Function == <<"function", 0>>

\* typeof m[k] !== 'undefined'
HasProperty(m, k) == k \in DOMAIN m \/ k \in InheritedNames

\* the truth value of m[k]: an own flag, an inherited function (truthy) or
\* undefined (falsy)
Truthy(m, k) == IF k \in DOMAIN m THEN m[k] ELSE k \in InheritedNames

\* the value of m[k] in the map of user ids
IdOf(m, k) == IF k \in DOMAIN m THEN m[k] ELSE Function

\* mutant: the assignment reaches every key of the map
PutAll(m, k, v) == [x \in DOMAIN m \cup {k} |-> v]

\* m[k] = v : an own key is overwritten or added
Put(m, k, v) == [x \in DOMAIN m \cup {k} |-> IF x = k THEN v ELSE m[x]]

\* the own keys of m in the order of visit
OwnKeys(m) == LET own(k) == k \in DOMAIN m IN SelectSeq(KeyOrder, own)

\* --------------------------------------------------------------- JSON text
\* JSON.stringify of a map of booleans: every key with the literal true/false
StringifyFlags(m) == [k \in DOMAIN m |-> IF m[k] THEN <<"lit", 1>> ELSE <<"lit", 0>>]

ParseFlags(t) == [k \in DOMAIN t |-> t[k] = <<"lit", 1>>]

\* JSON.stringify of the user id map: null, a number literal or a quoted string
StringifyIds(m) == [k \in DOMAIN m |-> IF m[k][1] = "null" THEN <<"lit", 2>> ELSE IF m[k][1] = "num" THEN <<"number", m[k][2]>> ELSE <<"quoted", m[k][2]>>]

ParseIds(t) == [k \in DOMAIN t |-> IF t[k][1] = "lit" THEN Null ELSE IF t[k][1] = "number" THEN Num(t[k][2]) ELSE Str(t[k][2])]

\* the number of keys with a true value
CountTrue(m) == Cardinality({k \in DOMAIN m : m[k]})

DefaultFlags == [k \in FactorSet |-> FALSE]

DefaultUserIds == [k \in FactorSet |-> Null]

\* a localStorage item: whether the key was ever written, whether its text is
\* JSON, and the text (the token of every key of the object it encodes);
\* a storage key that was never written: getItem returns null
NoFlagsItem == [set |-> FALSE, json |-> TRUE, text |-> StringifyFlags(DefaultFlags)]

NoIdsItem == [set |-> FALSE, json |-> TRUE, text |-> StringifyIds(DefaultUserIds)]

\* a stored text that JSON.parse rejects with a SyntaxError
Malformed(item) == item.set /\ ~item.json

\* JSON.parse(localStorage.getItem(key)) || default, of a text that parses
LoadFlags(item) == IF item.set THEN ParseFlags(item.text) ELSE DefaultFlags

LoadIds(item) == IF item.set THEN ParseIds(item.text) ELSE DefaultUserIds

\* ------------------------------------------------------------------- state
VARIABLES
  validatedBiometrics,   \* in-memory map type -> bool
  sessionValidations,    \* in-memory map type -> bool
  validatedUserIds,      \* in-memory map type -> user id
  animationVisible,      \* in-memory flag
  lsValidatedBiometrics, \* localStorage 'validatedBiometrics'
  lsSessionValidations,  \* localStorage 'sessionValidations'
  lsValidatedUserIds,    \* localStorage 'validatedUserIds'
  ssWelcomeShown,        \* sessionStorage 'has_shown_biometric_welcome'
  ssViolation,           \* sessionStorage 'biometric_security_violation'
  ssMismatchIds,         \* sessionStorage 'biometric_security_mismatch_ids' is set
  lsValidatedUserData,   \* localStorage 'validatedUserData' is set
  windowValidatedUserData, \* window.validatedUserData holds a user/vehicle bundle
  scriptFailed,          \* the script threw while initialising: nothing is exported
  overlayShown,          \* #biometric-animation-container has opacity 1
  welcomeVisible,        \* the welcome presentation is displayed
  redirectScheduled,     \* a 3000 ms timer to '/?security_violation=true' is pending
  replayTimer,           \* the 500 ms page-load timer is pending
  fetchPending,          \* car-doors.svg fetches in flight
  t500Pending,           \* pending 500 ms "trigger animations" timers
  t5000Pending,          \* pending 5000 ms "transition to welcome" timers
  cleanupPending,        \* pending 300 ms clean-up timers of hideCarDoorAnimation
  lastCall,              \* the handler that ran in the last step, with its locals
  otherTab,              \* the page of a second tab of the origin (localStorage is shared)
  face,                  \* the face capture widget: its elements and the camera
  voice                  \* the voice capture widget: its variables, elements, streams and recorders

\* the variables of the controller page and its storage
pageVars == <<validatedBiometrics, sessionValidations, validatedUserIds, animationVisible, lsValidatedBiometrics, lsSessionValidations, lsValidatedUserIds, ssWelcomeShown, ssViolation, ssMismatchIds, lsValidatedUserData, windowValidatedUserData, scriptFailed, overlayShown, welcomeVisible, redirectScheduled, replayTimer, fetchPending, t500Pending, t5000Pending, cleanupPending, lastCall, otherTab>>

vars == <<validatedBiometrics, sessionValidations, validatedUserIds, animationVisible, lsValidatedBiometrics, lsSessionValidations, lsValidatedUserIds, ssWelcomeShown, ssViolation, ssMismatchIds, lsValidatedUserData, windowValidatedUserData, scriptFailed, overlayShown, welcomeVisible, redirectScheduled, replayTimer, fetchPending, t500Pending, t5000Pending, cleanupPending, lastCall, otherTab, face, voice>>

\* the page and storage state as one record, threaded through nested calls
Cur == [validatedBiometrics |-> validatedBiometrics, sessionValidations |-> sessionValidations, validatedUserIds |-> validatedUserIds, animationVisible |-> animationVisible, lsValidatedBiometrics |-> lsValidatedBiometrics, lsSessionValidations |-> lsSessionValidations, lsValidatedUserIds |-> lsValidatedUserIds, ssWelcomeShown |-> ssWelcomeShown, ssViolation |-> ssViolation, ssMismatchIds |-> ssMismatchIds, lsValidatedUserData |-> lsValidatedUserData, windowValidatedUserData |-> windowValidatedUserData, scriptFailed |-> scriptFailed, overlayShown |-> overlayShown, welcomeVisible |-> welcomeVisible, redirectScheduled |-> redirectScheduled, replayTimer |-> replayTimer, fetchPending |-> fetchPending, t500Pending |-> t500Pending, t5000Pending |-> t5000Pending, cleanupPending |-> cleanupPending]

\* the page and storage state becomes st (st is bound once, so that the
\* handler that yields it is evaluated once per step); the page of the other
\* tab is not touched by a handler of this one
Becomes(st) ==
  \E s \in {st} :
    /\ otherTab' = otherTab
    /\ face' = face
    /\ voice' = voice
    /\ validatedBiometrics' = s.validatedBiometrics
    /\ sessionValidations' = s.sessionValidations
    /\ validatedUserIds' = s.validatedUserIds
    /\ animationVisible' = s.animationVisible
    /\ lsValidatedBiometrics' = s.lsValidatedBiometrics
    /\ lsSessionValidations' = s.lsSessionValidations
    /\ lsValidatedUserIds' = s.lsValidatedUserIds
    /\ ssWelcomeShown' = s.ssWelcomeShown
    /\ ssViolation' = s.ssViolation
    /\ ssMismatchIds' = s.ssMismatchIds
    /\ lsValidatedUserData' = s.lsValidatedUserData
    /\ windowValidatedUserData' = s.windowValidatedUserData
    /\ scriptFailed' = s.scriptFailed
    /\ overlayShown' = s.overlayShown
    /\ welcomeVisible' = s.welcomeVisible
    /\ redirectScheduled' = s.redirectScheduled
    /\ replayTimer' = s.replayTimer
    /\ fetchPending' = s.fetchPending
    /\ t500Pending' = s.t500Pending
    /\ t5000Pending' = s.t5000Pending
    /\ cleanupPending' = s.cleanupPending

\* the record of a handler that is not setBiometricValidated: its name; for
\* setBiometricValidated the record also holds the session flag of the type
\* and animationVisible as found, the locals isNewSessionValidation,
\* validCount, sessionCount and doUsersMatch, whether the type is one of the
\* four factors, the branch taken, the number of
\* calls of showCarDoorAnimation and whether it rendered
Call(op) == [op |-> op, knownFactor |-> TRUE, branch |-> "", isValidated |-> FALSE, wasSessionValidated |-> FALSE, isNewSessionValidation |-> FALSE, wasVisible |-> FALSE, validCount |-> 0, sessionCount |-> 0, doUsersMatch |-> TRUE, shows |-> 0, rendered |-> FALSE]

\* ------------------------------------------------------ consistency checker
\* mutant: the validated flag is not asked for
CollectAllUserIds(st) ==
  LET keep(k) == st.validatedUserIds[k] # Null
      kept == SelectSeq(OwnKeys(st.validatedUserIds), keep)
  IN [i \in 1..Len(kept) |-> st.validatedUserIds[kept[i]]]

\* the ids of the validated types whose id is not null, in key order
CollectUserIds(st) ==
  LET keep(k) == Truthy(st.validatedBiometrics, k) /\ st.validatedUserIds[k] # Null
      kept == SelectSeq(OwnKeys(st.validatedUserIds), keep)
  IN [i \in 1..Len(kept) |-> st.validatedUserIds[kept[i]]]

\* mutant: the ids are compared without String()
AllMatchStrict(userIds) == \A i \in 1..Len(userIds) : ~StrictNotEqual(userIds[i], userIds[1])

\* mutant: some() in place of every(); the first id always matches itself
AllMatchSome(userIds) == \E i \in 1..Len(userIds) : String(userIds[i]) = String(userIds[1])

\* userIds.every(userId => String(userId) === String(firstUserId))
AllMatch(userIds) == \A i \in 1..Len(userIds) : String(userIds[i]) = String(userIds[1])

\* mutant: the list of the mismatched ids is not written
CheckerOmitsIdList(st) ==
  LET userIds == CollectUserIds(st)
  IN IF Len(userIds) <= 1 THEN [ret |-> TRUE, st |-> st]
     ELSE IF AllMatch(userIds) THEN [ret |-> TRUE, st |-> st]
     ELSE [ret |-> FALSE, st |-> [st EXCEPT !.ssViolation = TRUE]]

\* mutant: the marker is written whenever ids were compared
CheckerAlwaysMarks(st) ==
  LET userIds == CollectUserIds(st)
  IN IF Len(userIds) <= 1 THEN [ret |-> TRUE, st |-> st]
     ELSE [ret |-> AllMatch(userIds), st |-> [st EXCEPT !.ssViolation = TRUE, !.ssMismatchIds = TRUE]]

\* the value returned, and the state left (the marker is written on a mismatch)
doValidatedBiometricsMatchSameUser(st) ==
  LET userIds == CollectUserIds(st)
  IN IF Len(userIds) <= 1 THEN [ret |-> TRUE, st |-> st]
     ELSE IF AllMatch(userIds) THEN [ret |-> TRUE, st |-> st]
     ELSE [ret |-> FALSE, st |-> [st EXCEPT !.ssViolation = TRUE, !.ssMismatchIds = TRUE]]

countValidatedBiometrics(st) == Cardinality({k \in DOMAIN st.validatedBiometrics : st.validatedBiometrics[k]})

countSessionValidations(st) == Cardinality({k \in DOMAIN st.sessionValidations : st.sessionValidations[k]})

\* ------------------------------------------------------------------- resets
\* mutant: the user ids are not reset
ResetKeepsUserIds(st) ==
  LET vb == [k \in DOMAIN st.validatedBiometrics |-> FALSE]
      sv == [k \in DOMAIN st.sessionValidations |-> FALSE]
  IN [st EXCEPT !.validatedBiometrics = vb, !.sessionValidations = sv, !.animationVisible = FALSE, !.lsValidatedBiometrics = [set |-> TRUE, json |-> TRUE, text |-> StringifyFlags(vb)], !.lsSessionValidations = [set |-> TRUE, json |-> TRUE, text |-> StringifyFlags(sv)], !.lsValidatedUserIds = [set |-> TRUE, json |-> TRUE, text |-> StringifyIds(st.validatedUserIds)], !.lsValidatedUserData = FALSE, !.ssWelcomeShown = FALSE]

\* mutant: the maps are written to localStorage before they are zeroed
ResetStoresBeforeZeroing(st) ==
  LET vb == [k \in DOMAIN st.validatedBiometrics |-> FALSE]
      sv == [k \in DOMAIN st.sessionValidations |-> FALSE]
      ids == [k \in DOMAIN st.validatedUserIds |-> Null]
  IN [st EXCEPT !.validatedBiometrics = vb, !.sessionValidations = sv, !.validatedUserIds = ids, !.animationVisible = FALSE, !.lsValidatedBiometrics = [set |-> TRUE, json |-> TRUE, text |-> StringifyFlags(st.validatedBiometrics)], !.lsSessionValidations = [set |-> TRUE, json |-> TRUE, text |-> StringifyFlags(st.sessionValidations)], !.lsValidatedUserIds = [set |-> TRUE, json |-> TRUE, text |-> StringifyIds(st.validatedUserIds)], !.lsValidatedUserData = FALSE, !.ssWelcomeShown = FALSE]

\* mutant: the reset also removes the violation marker
ResetRemovesViolationMarker(st) ==
  LET vb == [k \in DOMAIN st.validatedBiometrics |-> FALSE]
      sv == [k \in DOMAIN st.sessionValidations |-> FALSE]
      ids == [k \in DOMAIN st.validatedUserIds |-> Null]
  IN [st EXCEPT !.validatedBiometrics = vb, !.sessionValidations = sv, !.validatedUserIds = ids, !.animationVisible = FALSE, !.lsValidatedBiometrics = [set |-> TRUE, json |-> TRUE, text |-> StringifyFlags(vb)], !.lsSessionValidations = [set |-> TRUE, json |-> TRUE, text |-> StringifyFlags(sv)], !.lsValidatedUserIds = [set |-> TRUE, json |-> TRUE, text |-> StringifyIds(ids)], !.lsValidatedUserData = FALSE, !.ssWelcomeShown = FALSE, !.ssViolation = FALSE, !.ssMismatchIds = FALSE]

resetBiometricValidations(st) ==
  LET vb == [k \in DOMAIN st.validatedBiometrics |-> FALSE]
      sv == [k \in DOMAIN st.sessionValidations |-> FALSE]
      ids == [k \in DOMAIN st.validatedUserIds |-> Null]
  IN [st EXCEPT !.validatedBiometrics = vb, !.sessionValidations = sv, !.validatedUserIds = ids, !.animationVisible = FALSE, !.lsValidatedBiometrics = [set |-> TRUE, json |-> TRUE, text |-> StringifyFlags(vb)], !.lsSessionValidations = [set |-> TRUE, json |-> TRUE, text |-> StringifyFlags(sv)], !.lsValidatedUserIds = [set |-> TRUE, json |-> TRUE, text |-> StringifyIds(ids)], !.lsValidatedUserData = FALSE, !.ssWelcomeShown = FALSE]

\* mutant: the validated flags are zeroed with the session flags
ResetSessionAlsoClearsValidated(st) ==
  LET sv == [k \in DOMAIN st.sessionValidations |-> FALSE]
      vb == [k \in DOMAIN st.validatedBiometrics |-> FALSE]
  IN [st EXCEPT !.sessionValidations = sv, !.validatedBiometrics = vb, !.lsSessionValidations = [set |-> TRUE, json |-> TRUE, text |-> StringifyFlags(sv)], !.lsValidatedBiometrics = [set |-> TRUE, json |-> TRUE, text |-> StringifyFlags(vb)], !.ssWelcomeShown = FALSE]

resetSessionValidations(st) ==
  LET sv == [k \in DOMAIN st.sessionValidations |-> FALSE]
  IN [st EXCEPT !.sessionValidations = sv, !.lsSessionValidations = [set |-> TRUE, json |-> TRUE, text |-> StringifyFlags(sv)], !.ssWelcomeShown = FALSE]

\* ---------------------------------------------------------------- sequencer
\* mutant: the sequencer relies on the checker alone
NoneDiffersFromFirst(ids) == FALSE

\* biometricUserIds.some(id => id !== biometricUserIds[0])
SomeDiffersFromFirst(ids) == \E i \in 1..Len(ids) : StrictNotEqual(ids[i], ids[1])

\* mutant: the sequencer blocks the animation and redirects without a reset
SequencerRedirectsWithoutReset(st) ==
  LET chk == doValidatedBiometricsMatchSameUser(st)
      isOn(k) == st.validatedBiometrics[k]
      validatedTypes == SelectSeq(OwnKeys(st.validatedBiometrics), isOn)
      biometricUserIds == [i \in 1..Len(validatedTypes) |-> IdOf(st.validatedUserIds, validatedTypes[i])]
  IN IF ~chk.ret \/ SomeDiffersFromFirst(biometricUserIds)
     THEN [ret |-> FALSE, st |-> [chk.st EXCEPT !.ssViolation = TRUE, !.redirectScheduled = TRUE]]
     ELSE [ret |-> TRUE, st |-> [chk.st EXCEPT !.overlayShown = TRUE, !.animationVisible = TRUE, !.fetchPending = @ + 1]]

\* returns false after the violation flow, otherwise makes the overlay visible
\* and starts loading the animation
showCarDoorAnimation(st) ==
  LET chk == doValidatedBiometricsMatchSameUser(st)
      isOn(k) == st.validatedBiometrics[k]
      validatedTypes == SelectSeq(OwnKeys(st.validatedBiometrics), isOn)
      biometricUserIds == [i \in 1..Len(validatedTypes) |-> IdOf(st.validatedUserIds, validatedTypes[i])]
  IN IF ~chk.ret \/ SomeDiffersFromFirst(biometricUserIds)
     THEN [ret |-> FALSE, st |-> [resetBiometricValidations([chk.st EXCEPT !.ssViolation = TRUE]) EXCEPT !.redirectScheduled = TRUE]]
     ELSE [ret |-> TRUE, st |-> [chk.st EXCEPT !.overlayShown = TRUE, !.animationVisible = TRUE, !.fetchPending = @ + 1]]

\* mutant: the reset that is commented out in the clean-up is carried out
HideCarDoorAnimationAndReset(st) == resetBiometricValidations([st EXCEPT !.overlayShown = FALSE, !.cleanupPending = @ + 1])

\* opacity 0 at once, the flag only in the 300 ms clean-up
hideCarDoorAnimation(st) == [st EXCEPT !.overlayShown = FALSE, !.cleanupPending = @ + 1]

\* --------------------------------------------------------------- controller
\* mutant: one validation is enough for the success row
DecideThresholdOne(validCount, visible, isNew, sessionCount, doUsersMatch) ==
  IF validCount >= 1 /\ ~visible /\ isNew /\ sessionCount >= 1 /\ doUsersMatch THEN "show"
  ELSE IF validCount >= 2 /\ ~doUsersMatch THEN "violation"
  ELSE "none"

\* mutant: the violation row also asks for the animation not to be visible
DecideViolationWhenHidden(validCount, visible, isNew, sessionCount, doUsersMatch) ==
  IF validCount >= 2 /\ ~visible /\ isNew /\ sessionCount >= 2 /\ doUsersMatch THEN "show"
  ELSE IF validCount >= 2 /\ ~visible /\ ~doUsersMatch THEN "violation"
  ELSE "none"

\* the row of the decision taken by setBiometricValidated
Decide(validCount, visible, isNew, sessionCount, doUsersMatch) ==
  IF validCount >= 2 /\ ~visible /\ isNew /\ sessionCount >= 2 /\ doUsersMatch THEN "show"
  ELSE IF validCount >= 2 /\ ~doUsersMatch THEN "violation"
  ELSE "none"

\* mutant: the validated flag is read in place of the session flag
IsNewByValidatedFlag(st, type, isValidated) == ~Truthy(st.validatedBiometrics, type) /\ isValidated

\* const isNewSessionValidation = !sessionValidations[type] && isValidated
IsNewSessionValidation(st, type, isValidated) == ~Truthy(st.sessionValidations, type) /\ isValidated

\* mutant: an invalidation keeps the user id of the factor
StoreUpdateKeepsUserId(st, type, isValidated, userId) ==
  LET vb == Put(st.validatedBiometrics, type, isValidated)
      sv == IF isValidated THEN Put(st.sessionValidations, type, TRUE) ELSE st.sessionValidations
      ids == IF isValidated /\ userId # Null THEN Put(st.validatedUserIds, type, userId) ELSE st.validatedUserIds
      lsIds == IF isValidated /\ userId = Null THEN st.lsValidatedUserIds ELSE [set |-> TRUE, json |-> TRUE, text |-> StringifyIds(ids)]
  IN [st EXCEPT !.validatedBiometrics = vb, !.sessionValidations = sv, !.validatedUserIds = ids, !.lsValidatedUserIds = lsIds, !.lsValidatedBiometrics = [set |-> TRUE, json |-> TRUE, text |-> StringifyFlags(vb)], !.lsSessionValidations = [set |-> TRUE, json |-> TRUE, text |-> StringifyFlags(sv)]]

\* mutant: an invalidation also clears the session flag of the factor
StoreUpdateClearsSession(st, type, isValidated, userId) ==
  LET vb == Put(st.validatedBiometrics, type, isValidated)
      sv == Put(st.sessionValidations, type, isValidated)
      ids == IF isValidated THEN (IF userId # Null THEN Put(st.validatedUserIds, type, userId) ELSE st.validatedUserIds)
             ELSE Put(st.validatedUserIds, type, Null)
      lsIds == IF isValidated /\ userId = Null THEN st.lsValidatedUserIds ELSE [set |-> TRUE, json |-> TRUE, text |-> StringifyIds(ids)]
  IN [st EXCEPT !.validatedBiometrics = vb, !.sessionValidations = sv, !.validatedUserIds = ids, !.lsValidatedUserIds = lsIds, !.lsValidatedBiometrics = [set |-> TRUE, json |-> TRUE, text |-> StringifyFlags(vb)], !.lsSessionValidations = [set |-> TRUE, json |-> TRUE, text |-> StringifyFlags(sv)]]

\* mutant: a validation that carries no id overwrites the id with null
StoreUpdateWritesNullId(st, type, isValidated, userId) ==
  LET vb == Put(st.validatedBiometrics, type, isValidated)
      sv == IF isValidated THEN Put(st.sessionValidations, type, TRUE) ELSE st.sessionValidations
      ids == IF isValidated THEN Put(st.validatedUserIds, type, userId) ELSE Put(st.validatedUserIds, type, Null)
  IN [st EXCEPT !.validatedBiometrics = vb, !.sessionValidations = sv, !.validatedUserIds = ids, !.lsValidatedUserIds = [set |-> TRUE, json |-> TRUE, text |-> StringifyIds(ids)], !.lsValidatedBiometrics = [set |-> TRUE, json |-> TRUE, text |-> StringifyFlags(vb)], !.lsSessionValidations = [set |-> TRUE, json |-> TRUE, text |-> StringifyFlags(sv)]]

\* the state after the store update of a known type
StoreUpdate(st, type, isValidated, userId) ==
  LET vb == Put(st.validatedBiometrics, type, isValidated)
      sv == IF isValidated THEN Put(st.sessionValidations, type, TRUE) ELSE st.sessionValidations
      ids == IF isValidated THEN (IF userId # Null THEN Put(st.validatedUserIds, type, userId) ELSE st.validatedUserIds)
             ELSE Put(st.validatedUserIds, type, Null)
      lsIds == IF isValidated /\ userId = Null THEN st.lsValidatedUserIds ELSE [set |-> TRUE, json |-> TRUE, text |-> StringifyIds(ids)]
  IN [st EXCEPT !.validatedBiometrics = vb, !.sessionValidations = sv, !.validatedUserIds = ids, !.lsValidatedUserIds = lsIds, !.lsValidatedBiometrics = [set |-> TRUE, json |-> TRUE, text |-> StringifyFlags(vb)], !.lsSessionValidations = [set |-> TRUE, json |-> TRUE, text |-> StringifyFlags(sv)]]

\* the state left by the call and the locals it computed
setBiometricValidated(st, type, isValidated, userId) ==
  IF ~HasProperty(st.validatedBiometrics, type)
  THEN [st |-> st, call |-> [Call("setBiometricValidated") EXCEPT !.knownFactor = FALSE, !.branch = "unknown", !.isValidated = isValidated]]
  ELSE
    LET isNewSessionValidation == IsNewSessionValidation(st, type, isValidated)
        s1 == StoreUpdate(st, type, isValidated, userId)
        validCount == countValidatedBiometrics(s1)
        sessionCount == countSessionValidations(s1)
        chk == doValidatedBiometricsMatchSameUser(s1)
        branch == Decide(validCount, chk.st.animationVisible, isNewSessionValidation, sessionCount, chk.ret)
        shown == showCarDoorAnimation(chk.st)
        s2 == CASE branch = "show" -> shown.st
                [] branch = "violation" -> [resetBiometricValidations([chk.st EXCEPT !.ssViolation = TRUE]) EXCEPT !.redirectScheduled = TRUE]
                [] OTHER -> chk.st
    IN [st |-> s2, call |-> [op |-> "setBiometricValidated", knownFactor |-> type \in FactorSet, branch |-> branch, isValidated |-> isValidated, wasSessionValidated |-> Truthy(st.sessionValidations, type), isNewSessionValidation |-> isNewSessionValidation, wasVisible |-> st.animationVisible, validCount |-> validCount, sessionCount |-> sessionCount, doUsersMatch |-> chk.ret, shows |-> IF branch = "show" THEN 1 ELSE 0, rendered |-> branch = "show" /\ shown.ret]]

\* mutant: the session map is changed in memory only
SetSessionValidationInMemory(st, type, isValidated) ==
  IF HasProperty(st.sessionValidations, type)
  THEN [ret |-> TRUE, st |-> [st EXCEPT !.sessionValidations = Put(st.sessionValidations, type, isValidated)]]
  ELSE [ret |-> FALSE, st |-> st]

setSessionValidation(st, type, isValidated) ==
  IF HasProperty(st.sessionValidations, type)
  THEN LET sv == Put(st.sessionValidations, type, isValidated)
       IN [ret |-> TRUE, st |-> [st EXCEPT !.sessionValidations = sv, !.lsSessionValidations = [set |-> TRUE, json |-> TRUE, text |-> StringifyFlags(sv)]]]
  ELSE [ret |-> FALSE, st |-> st]

\* ------------------------------------------------------- welcome animation
\* [...new Set(Object.values(stored ids).filter(id => id !== null))].length > 1
\* on the ids read back from localStorage; a Set keeps 7 and "7" apart
WelcomeIdsMismatch(st) ==
  LET stored == IF st.lsValidatedUserIds.set THEN ParseIds(st.lsValidatedUserIds.text) ELSE DefaultUserIds
      nonNull == {k \in DOMAIN stored : stored[k] # Null}
      unique == {stored[k] : k \in nonNull}
  IN st.lsValidatedUserIds.set /\ Cardinality(nonNull) > 1 /\ Cardinality(unique) > 1

\* runs the checker (its result is not used), then its own check of the ids
showWelcomeAnimation(st) ==
  LET chk == doValidatedBiometricsMatchSameUser(st)
  IN IF WelcomeIdsMismatch(chk.st)
     THEN [ret |-> FALSE, st |-> [resetBiometricValidations([chk.st EXCEPT !.ssViolation = TRUE]) EXCEPT !.redirectScheduled = TRUE]]
     ELSE [ret |-> TRUE, st |-> [chk.st EXCEPT !.welcomeVisible = TRUE]]

\* ---------------------------------------------------------------- page load
\* a new page: the window of the old page, its timers and its overlay are gone
NewPage(st) == [st EXCEPT !.animationVisible = FALSE, !.overlayShown = FALSE, !.welcomeVisible = FALSE, !.redirectScheduled = FALSE, !.replayTimer = FALSE, !.fetchPending = 0, !.t500Pending = 0, !.t5000Pending = 0, !.cleanupPending = 0, !.windowValidatedUserData = FALSE, !.scriptFailed = FALSE]

\* JSON.parse throws at the top level of the script: the rest of the script
\* does not run, so no map is initialised (the model keeps the defaults in
\* their place), no DOMContentLoaded handler is registered and
\* window.biometricAnimation is not defined
FailedInitialisation(st) == [NewPage(st) EXCEPT !.validatedBiometrics = DefaultFlags, !.sessionValidations = DefaultFlags, !.validatedUserIds = DefaultUserIds, !.scriptFailed = TRUE]

\* mutant: the replay does not ask for two session validations
LoadPageIgnoresSession(st) ==
  IF Malformed(st.lsValidatedBiometrics) \/ Malformed(st.lsSessionValidations) \/ Malformed(st.lsValidatedUserIds)
  THEN FailedInitialisation(st)
  ELSE
    LET vb == LoadFlags(st.lsValidatedBiometrics)
        sv == LoadFlags(st.lsSessionValidations)
        ids == LoadIds(st.lsValidatedUserIds)
        s1 == [NewPage(st) EXCEPT !.validatedBiometrics = vb, !.sessionValidations = sv, !.validatedUserIds = ids]
    IN [s1 EXCEPT !.replayTimer = (CountTrue(vb) >= 2 /\ ~s1.animationVisible)]

\* module initialisation followed by the DOMContentLoaded handler, on a page
\* whose storage is as in st: the maps are read back, all timers of the old
\* page are gone, the replay timer is set when both counts are at least 2;
\* the three JSON.parse calls of the initialisation are not guarded (the one
\* of the handler is, but the handler is registered after them)
LoadPage(st) ==
  IF Malformed(st.lsValidatedBiometrics) \/ Malformed(st.lsSessionValidations) \/ Malformed(st.lsValidatedUserIds)
  THEN FailedInitialisation(st)
  ELSE
    LET vb == LoadFlags(st.lsValidatedBiometrics)
        sv == LoadFlags(st.lsSessionValidations)
        ids == LoadIds(st.lsValidatedUserIds)
        s1 == [NewPage(st) EXCEPT !.validatedBiometrics = vb, !.sessionValidations = sv, !.validatedUserIds = ids]
        validCount == countValidatedBiometrics(s1)
        sessionCount == Cardinality({k \in DOMAIN LoadFlags(st.lsSessionValidations) : LoadFlags(st.lsSessionValidations)[k]})
    IN [s1 EXCEPT !.replayTimer = (validCount >= 2 /\ ~s1.animationVisible /\ sessionCount >= 2)]

\* the browser session ends: sessionStorage is dropped, localStorage is kept
EndSession(st) == [st EXCEPT !.ssWelcomeShown = FALSE, !.ssViolation = FALSE, !.ssMismatchIds = FALSE]

\* the success sequences that have started and not reached their last timer
SequencesInFlight(st) == st.fetchPending + st.t500Pending + st.t5000Pending

\* ------------------------------------------------------ face capture widget
\* the widget as the markup of the page gives it, before the camera answers:
\* which of video and canvas is displayed and which buttons are disabled
FaceMarkup(videoShown, canvasShown, captureDisabled, retakeDisabled, saveDisabled) ==
  [camera |-> "pending", videoShown |-> videoShown, canvasShown |-> canvasShown, captureDisabled |-> captureDisabled, retakeDisabled |-> retakeDisabled, saveDisabled |-> saveDisabled, processingShown |-> FALSE, submitted |-> FALSE, lastOp |-> "load"]

\* startFaceCapture after getCameraStream resolved
startFaceCapture(f) ==
  [f EXCEPT !.camera = "started", !.videoShown = TRUE, !.canvasShown = FALSE, !.captureDisabled = FALSE, !.retakeDisabled = TRUE, !.saveDisabled = TRUE]

\* mutant: the capture button stays enabled beside the captured frame
CaptureFaceKeepsCapture(f, throws) ==
  IF throws THEN f
  ELSE [f EXCEPT !.videoShown = FALSE, !.canvasShown = TRUE, !.retakeDisabled = FALSE, !.saveDisabled = FALSE]

\* captureFace: drawing the frame may throw, before anything is changed
captureFace(f, throws) ==
  IF throws THEN f
  ELSE [f EXCEPT !.videoShown = FALSE, !.canvasShown = TRUE, !.captureDisabled = TRUE, !.retakeDisabled = FALSE, !.saveDisabled = FALSE]

resetFaceCapture(f) ==
  [f EXCEPT !.videoShown = TRUE, !.canvasShown = FALSE, !.captureDisabled = FALSE, !.retakeDisabled = TRUE, !.saveDisabled = TRUE]

\* saveFaceBiometric: reading the canvas or submitting the form may throw,
\* after the two buttons were disabled; the catch enables them again
saveFaceBiometric(f, throws) ==
  IF throws THEN [f EXCEPT !.processingShown = FALSE, !.saveDisabled = FALSE, !.retakeDisabled = FALSE]
  ELSE [f EXCEPT !.processingShown = TRUE, !.saveDisabled = TRUE, !.retakeDisabled = TRUE, !.submitted = TRUE]

\* ----------------------------------------------------- voice capture widget
\* streams and recorders are numbered in the order of their creation;
\* recorder n records stream n; 0 stands for null
VoiceLoaded ==
  [audioStream |-> 0, audioRecorder |-> 0, isRecording |-> FALSE, recordedBlob |-> FALSE, playerShown |-> FALSE,
   startDisabled |-> FALSE, stopDisabled |-> TRUE, saveDisabled |-> TRUE, retakeDisabled |-> TRUE,
   awaiting |-> 0, acquired |-> 0, live |-> {}, recording |-> {}, stopEvents |-> {}, submitted |-> FALSE, lastOp |-> "load"]

\* stopVoiceRecording: stops the recorder and the tracks of the stream the
\* variables name; MediaRecorder.stop() on a recorder that is not recording
\* throws in some browsers and does nothing in others (throws tells which)
stopVoiceRecording(v, throws) ==
  IF v.audioRecorder # 0 /\ v.isRecording
  THEN IF v.audioRecorder \in v.recording
       THEN [threw |-> FALSE, v |-> [v EXCEPT !.recording = @ \ {v.audioRecorder}, !.stopEvents = @ \cup {v.audioRecorder}, !.live = @ \ {v.audioStream}]]
       ELSE IF throws THEN [threw |-> TRUE, v |-> v]
            ELSE [threw |-> FALSE, v |-> [v EXCEPT !.live = @ \ {v.audioStream}]]
  ELSE [threw |-> FALSE, v |-> v]

resetVoiceCapture(v, throws) ==
  LET s == IF v.isRecording THEN stopVoiceRecording(v, throws) ELSE [threw |-> FALSE, v |-> v]
  IN IF s.threw THEN s
     ELSE [threw |-> FALSE, v |-> [s.v EXCEPT !.playerShown = FALSE, !.recordedBlob = FALSE, !.startDisabled = FALSE, !.stopDisabled = TRUE, !.saveDisabled = TRUE, !.retakeDisabled = TRUE]]

\* startVoiceRecording up to its await: the reset, then the request for the
\* microphone; an exception of the reset ends in the catch
startVoiceRecording(v, throws) ==
  LET r == resetVoiceCapture(v, throws)
  IN IF r.threw THEN r.v ELSE [r.v EXCEPT !.awaiting = @ + 1]

\* startVoiceRecording after its await: the granted stream and a new
\* recorder replace the ones the variables named, and the recorder starts
VoiceStreamGranted(v) ==
  LET n == v.acquired + 1
  IN [v EXCEPT !.awaiting = @ - 1, !.acquired = n, !.audioStream = n, !.audioRecorder = n, !.live = @ \cup {n}, !.recording = @ \cup {n}, !.isRecording = TRUE, !.startDisabled = TRUE, !.stopDisabled = FALSE]

\* audioRecorder.onstop of one recorder
VoiceRecorderStopped(v, n) ==
  [v EXCEPT !.stopEvents = @ \ {n}, !.recordedBlob = TRUE, !.playerShown = TRUE, !.startDisabled = FALSE, !.stopDisabled = TRUE, !.saveDisabled = FALSE, !.retakeDisabled = FALSE, !.isRecording = FALSE]

\* saveVoiceBiometric: without a recording an error is shown, else the two
\* buttons are disabled and the form is submitted when the blob is read
saveVoiceBiometric(v) ==
  IF ~v.recordedBlob THEN v
  ELSE [v EXCEPT !.saveDisabled = TRUE, !.retakeDisabled = TRUE, !.submitted = TRUE]

\* --------------------------------------------------------------------- Init
\* a page loaded while nothing was stored
FirstPage == [validatedBiometrics |-> DefaultFlags, sessionValidations |-> DefaultFlags, validatedUserIds |-> DefaultUserIds, animationVisible |-> FALSE, lsValidatedBiometrics |-> NoFlagsItem, lsSessionValidations |-> NoFlagsItem, lsValidatedUserIds |-> NoIdsItem, ssWelcomeShown |-> FALSE, ssViolation |-> FALSE, ssMismatchIds |-> FALSE, lsValidatedUserData |-> FALSE, windowValidatedUserData |-> FALSE, scriptFailed |-> FALSE, overlayShown |-> FALSE, welcomeVisible |-> FALSE, redirectScheduled |-> FALSE, replayTimer |-> FALSE, fetchPending |-> 0, t500Pending |-> 0, t5000Pending |-> 0, cleanupPending |-> 0]

\* the first page load of the first session: nothing stored, nothing pending
Init ==
  /\ validatedBiometrics = DefaultFlags
  /\ sessionValidations = DefaultFlags
  /\ validatedUserIds = DefaultUserIds
  /\ animationVisible = FALSE
  /\ lsValidatedBiometrics = NoFlagsItem
  /\ lsSessionValidations = NoFlagsItem
  /\ lsValidatedUserIds = NoIdsItem
  /\ ssWelcomeShown = FALSE
  /\ ssViolation = FALSE
  /\ ssMismatchIds = FALSE
  /\ lsValidatedUserData = FALSE
  /\ windowValidatedUserData = FALSE
  /\ scriptFailed = FALSE
  /\ overlayShown = FALSE
  /\ welcomeVisible = FALSE
  /\ redirectScheduled = FALSE
  /\ replayTimer = FALSE
  /\ fetchPending = 0
  /\ t500Pending = 0
  /\ t5000Pending = 0
  /\ cleanupPending = 0
  /\ lastCall = Call("load")
  /\ otherTab = FirstPage
  /\ face = FaceMarkup(FALSE, FALSE, TRUE, TRUE, TRUE)
  /\ voice = VoiceLoaded

\* ------------------------------------------------------------------ actions
\* a capture widget (or any script) calls biometricAnimation.setBiometricValidated
\* (the userId of an invalidation, and every argument but the type of a call
\* of an unknown type, is never read: one value stands for them; a call of
\* an unknown type changes nothing, and lastCall keeps the call before it)
Arguments ==
  {a \in ReportedTypes \X BOOLEAN \X UserIds :
     /\ a[2] \/ a[3] = Null
     /\ a[1] \in FactorSet \/ (a[2] /\ a[3] = Null)}

SetBiometricValidated ==
  \E a \in Arguments :
    \E r \in {setBiometricValidated(Cur, a[1], a[2], a[3])} :
       /\ ~scriptFailed
       /\ SequencesInFlight(r.st) <= MaxTimers
       /\ Becomes(r.st)
       /\ lastCall' = IF r.call.branch = "unknown" THEN lastCall ELSE r.call

ResetBiometricValidations ==
  /\ ~scriptFailed
  /\ Becomes(resetBiometricValidations(Cur))
  /\ lastCall' = Call("resetBiometricValidations")

ResetSessionValidations ==
  /\ ~scriptFailed
  /\ Becomes(resetSessionValidations(Cur))
  /\ lastCall' = Call("resetSessionValidations")

SetSessionValidation ==
  \E type \in ReportedTypes, isValidated \in BOOLEAN :
    /\ ~scriptFailed
    /\ Becomes(setSessionValidation(Cur, type, isValidated).st)
    /\ lastCall' = Call("setSessionValidation")

\* the close button of the overlay is clicked
HideCarDoorAnimation ==
  /\ ~scriptFailed
  /\ cleanupPending < MaxTimers
  /\ Becomes(hideCarDoorAnimation(Cur))
  /\ lastCall' = Call("hideCarDoorAnimation")

\* the 500 ms timer of the DOMContentLoaded handler fires
ReplayTimerFires ==
  /\ replayTimer
  /\ \E r \in {showCarDoorAnimation([Cur EXCEPT !.replayTimer = FALSE])} :
        /\ SequencesInFlight(r.st) <= MaxTimers
        /\ Becomes(r.st)
        /\ lastCall' = [Call("replay") EXCEPT !.shows = 1, !.rendered = r.ret]

\* fetch(car-doors.svg) resolves: the SVG is inserted, the 500 ms timer is set
FetchResolves ==
  /\ fetchPending > 0
  /\ Becomes([Cur EXCEPT !.fetchPending = @ - 1, !.t500Pending = @ + 1])
  /\ lastCall' = Call("fetchResolved")

\* fetch rejects: the promise chain has no catch, nothing more is scheduled
FetchRejects ==
  /\ fetchPending > 0
  /\ Becomes([Cur EXCEPT !.fetchPending = @ - 1])
  /\ lastCall' = Call("fetchRejected")

\* the doors animate, the 5000 ms transition timer is set
T500Fires ==
  /\ t500Pending > 0
  /\ Becomes([Cur EXCEPT !.t500Pending = @ - 1, !.t5000Pending = @ + 1])
  /\ lastCall' = Call("animate")

\* the transition timer: hide the doors, then the welcome once per session;
\* the shown marker is written whatever welcomeAnimation.show returned
\* (ret tells what became of the welcome: "skipped" when the marker was
\* found, else "shown" or "refused" after what welcomeAnimation.show returned)
TransitionToWelcome(st) ==
  LET s1 == hideCarDoorAnimation([st EXCEPT !.t5000Pending = @ - 1])
      welcome == showWelcomeAnimation(s1)
  IN IF ~s1.ssWelcomeShown
     THEN [ret |-> IF welcome.ret THEN "shown" ELSE "refused", st |-> [welcome.st EXCEPT !.ssWelcomeShown = TRUE]]
     ELSE [ret |-> "skipped", st |-> s1]

T5000Fires ==
  /\ t5000Pending > 0
  /\ cleanupPending < MaxTimers
  /\ \E r \in {TransitionToWelcome(Cur)} :
       /\ Becomes(r.st)
       /\ lastCall' = [Call("transition") EXCEPT !.branch = r.ret]

\* the 300 ms clean-up of hideCarDoorAnimation
CleanupFires ==
  /\ cleanupPending > 0
  /\ Becomes([Cur EXCEPT !.cleanupPending = @ - 1, !.animationVisible = FALSE])
  /\ lastCall' = Call("cleanup")

\* hideWelcomeAnimation: the Continue button or the 10 s auto-hide
HideWelcomeAnimation ==
  /\ welcomeVisible
  /\ Becomes([Cur EXCEPT !.welcomeVisible = FALSE])
  /\ lastCall' = Call("hideWelcome")

\* the 3000 ms redirect timer navigates to the home page, which loads the
\* script again; it was set after the page load, so the 500 ms replay timer
\* of that load fires first
RedirectFires ==
  /\ redirectScheduled
  /\ ~replayTimer
  /\ Becomes(LoadPage(Cur))
  /\ lastCall' = Call("redirect")

\* the user reloads the page or follows a link in the same tab
Reload ==
  /\ Becomes(LoadPage(Cur))
  /\ lastCall' = Call("load")

\* the tab is closed and the site is opened again in a new browser session
NewSession ==
  /\ Becomes(LoadPage(EndSession(Cur)))
  /\ lastCall' = Call("newSession")

\* the controller and the page life cycle: the calls of the exported API that
\* the decision of the controller depends on, the page loads and the two
\* timers that the controller itself sets
Next ==
  \/ SetBiometricValidated
  \/ ResetBiometricValidations
  \/ ResetSessionValidations
  \/ ReplayTimerFires
  \/ RedirectFires
  \/ Reload
  \/ NewSession

Spec == Init /\ [][Next]_vars

\* a validation page caches the full user/vehicle bundle of the user it
\* recognised, for the success and welcome presentations: in
\* window.validatedUserData, in localStorage 'validatedUserData', or in both
\* (the sequencer reads both and prefers the first)
CacheValidatedUserData ==
  \E inWindow, inStorage \in BOOLEAN :
    /\ inWindow \/ inStorage
    /\ Becomes([Cur EXCEPT !.windowValidatedUserData = @ \/ inWindow, !.lsValidatedUserData = @ \/ inStorage])
    /\ lastCall' = Call("cacheValidatedUserData")

\* the controller on pages that cache the bundle
BundleNext ==
  \/ SetBiometricValidated
  \/ ResetBiometricValidations
  \/ CacheValidatedUserData
  \/ Reload

BundleSpec == Init /\ [][BundleNext]_vars

\* names that are not biometric types: one that no object knows and the
\* names of the inherited properties
UnknownTypes == {"iris"} \cup InheritedNames

\* a script calls setBiometricValidated with a name that is not a type
SetUnknownFactor ==
  \E type \in UnknownTypes, isValidated \in BOOLEAN, userId \in {Null, Str(7)} :
    \E r \in {setBiometricValidated(Cur, type, isValidated, userId)} :
       /\ ~scriptFailed
       /\ isValidated \/ userId = Null
       /\ SequencesInFlight(r.st) <= MaxTimers
       /\ Becomes(r.st)
       /\ lastCall' = r.call

\* the controller with callers that pass only such names
UnknownNext ==
  \/ SetUnknownFactor
  \/ ResetBiometricValidations
  \/ Reload

UnknownSpec == Init /\ [][UnknownNext]_vars

\* the text of one of the three localStorage keys is replaced by a text that
\* is not JSON (localStorage is shared by every script of the origin and
\* outlives the versions of this one)
StorageCorrupted ==
  \E key \in {"validatedBiometrics", "sessionValidations", "validatedUserIds"} :
    /\ Becomes([Cur EXCEPT !.lsValidatedBiometrics = IF key = "validatedBiometrics" THEN [@ EXCEPT !.set = TRUE, !.json = FALSE] ELSE @,
                           !.lsSessionValidations = IF key = "sessionValidations" THEN [@ EXCEPT !.set = TRUE, !.json = FALSE] ELSE @,
                           !.lsValidatedUserIds = IF key = "validatedUserIds" THEN [@ EXCEPT !.set = TRUE, !.json = FALSE] ELSE @])
    /\ lastCall' = Call("storageCorrupted")

\* the controller on an origin whose stored texts may be corrupted
StorageNext ==
  \/ SetBiometricValidated
  \/ ResetBiometricValidations
  \/ StorageCorrupted
  \/ Reload

StorageSpec == Init /\ [][StorageNext]_vars

\* the four operations on the stores, on one page
ApiNext ==
  \/ SetBiometricValidated
  \/ ResetBiometricValidations
  \/ ResetSessionValidations
  \/ SetSessionValidation

ApiSpec == Init /\ [][ApiNext]_vars

\* the capture widgets as the only callers: setBiometricValidated alone
ControllerNext == SetBiometricValidated

ControllerSpec == Init /\ [][ControllerNext]_vars

\* another script calls biometricAnimation.doValidatedBiometricsMatchSameUser
DoValidatedBiometricsMatchSameUser ==
  \E r \in {doValidatedBiometricsMatchSameUser(Cur)} :
    /\ ~scriptFailed
    /\ Becomes(r.st)
    /\ lastCall' = [Call("doValidatedBiometricsMatchSameUser") EXCEPT !.doUsersMatch = r.ret]

\* a page whose script found any maps of flags and ids in localStorage (every
\* script of the origin writes there), with or without the markers of an
\* earlier violation in sessionStorage
CheckerInit ==
  \E vb \in [FactorSet -> BOOLEAN], ids \in [FactorSet -> UserIds], marked \in BOOLEAN :
    /\ validatedBiometrics = vb
    /\ sessionValidations = DefaultFlags
    /\ validatedUserIds = ids
    /\ animationVisible = FALSE
    /\ lsValidatedBiometrics = [set |-> TRUE, json |-> TRUE, text |-> StringifyFlags(vb)]
    /\ lsSessionValidations = NoFlagsItem
    /\ lsValidatedUserIds = [set |-> TRUE, json |-> TRUE, text |-> StringifyIds(ids)]
    /\ ssWelcomeShown = FALSE
    /\ ssViolation = marked
    /\ ssMismatchIds = marked
    /\ lsValidatedUserData = FALSE
    /\ windowValidatedUserData = FALSE
    /\ scriptFailed = FALSE
    /\ overlayShown = FALSE
    /\ welcomeVisible = FALSE
    /\ redirectScheduled = FALSE
    /\ replayTimer = FALSE
    /\ fetchPending = 0
    /\ t500Pending = 0
    /\ t5000Pending = 0
    /\ cleanupPending = 0
    /\ lastCall = Call("load")
    /\ otherTab = FirstPage
    /\ face = FaceMarkup(FALSE, FALSE, TRUE, TRUE, TRUE)
    /\ voice = VoiceLoaded

\* the consistency checker applied to every such state
CheckerNext == DoValidatedBiometricsMatchSameUser

CheckerSpec == CheckerInit /\ [][CheckerNext]_vars

\* a page in any state of the two stores and of the session: any validated
\* and session flags, one user behind the validated factors, with or without
\* the welcome shown, an earlier violation recorded, the overlay visible and
\* a bundle cached
ResetInit ==
  \E vb \in [FactorSet -> BOOLEAN], sv \in [FactorSet -> BOOLEAN], shown \in BOOLEAN, marked \in BOOLEAN, visible \in BOOLEAN, cached \in BOOLEAN :
    LET ids == [k \in FactorSet |-> IF vb[k] THEN Str(7) ELSE Null]
    IN /\ validatedBiometrics = vb
       /\ sessionValidations = sv
       /\ validatedUserIds = ids
       /\ animationVisible = visible
       /\ lsValidatedBiometrics = [set |-> TRUE, json |-> TRUE, text |-> StringifyFlags(vb)]
       /\ lsSessionValidations = [set |-> TRUE, json |-> TRUE, text |-> StringifyFlags(sv)]
       /\ lsValidatedUserIds = [set |-> TRUE, json |-> TRUE, text |-> StringifyIds(ids)]
       /\ ssWelcomeShown = shown
       /\ ssViolation = marked
       /\ ssMismatchIds = marked
       /\ lsValidatedUserData = cached
       /\ windowValidatedUserData = cached
       /\ scriptFailed = FALSE
       /\ overlayShown = visible
       /\ welcomeVisible = FALSE
       /\ redirectScheduled = FALSE
       /\ replayTimer = FALSE
       /\ fetchPending = 0
       /\ t500Pending = 0
       /\ t5000Pending = 0
       /\ cleanupPending = 0
       /\ lastCall = Call("load")
       /\ otherTab = FirstPage
       /\ face = FaceMarkup(FALSE, FALSE, TRUE, TRUE, TRUE)
       /\ voice = VoiceLoaded

\* the two resets applied to every such state
ResetNext ==
  \/ ResetBiometricValidations
  \/ ResetSessionValidations

ResetSpec == ResetInit /\ [][ResetNext]_vars

\* the controller together with the steps of the success sequence
SequencerNext ==
  \/ SetBiometricValidated
  \/ ResetBiometricValidations
  \/ ReplayTimerFires
  \/ RedirectFires
  \/ Reload
  \/ HideCarDoorAnimation
  \/ FetchResolves
  \/ FetchRejects
  \/ T500Fires
  \/ T5000Fires
  \/ CleanupFires
  \/ HideWelcomeAnimation

SequencerSpec == Init /\ [][SequencerNext]_vars

\* validations of two factors for ids that agree, that differ, and that agree
\* only as strings: between them they start every security-violation flow
ViolationArguments == {<<"face", TRUE, Str(7)>>, <<"face", TRUE, Num(7)>>, <<"voice", TRUE, Str(7)>>, <<"voice", TRUE, Str(8)>>}

\* a capture widget reports one of these validations (of the locals of the
\* call, the branch taken and what the sequencer did are recorded)
SetBiometricValidatedOfTwo ==
  \E a \in ViolationArguments :
    \E r \in {setBiometricValidated(Cur, a[1], a[2], a[3])} :
       /\ ~scriptFailed
       /\ SequencesInFlight(r.st) <= MaxTimers
       /\ Becomes(r.st)
       /\ lastCall' = [Call("setBiometricValidated") EXCEPT !.branch = r.call.branch, !.isValidated = TRUE, !.shows = r.call.shows, !.rendered = r.call.rendered]

\* the controller and the success sequence on a page that the user does not
\* leave: the only navigation is the one the violation flow schedules
ViolationNext ==
  \/ SetBiometricValidatedOfTwo
  \/ ReplayTimerFires
  \/ RedirectFires
  \/ FetchResolves
  \/ T500Fires
  \/ T5000Fires
  \/ CleanupFires

\* a timer that was set fires, and the fetch of a static asset settles (the
\* replay timer is held back while the sequences in flight are at their cap,
\* and fires once they are not)
ViolationFairness ==
  /\ SF_vars(ReplayTimerFires)
  /\ WF_vars(RedirectFires)
  /\ WF_vars(FetchResolves \/ T500Fires \/ T5000Fires \/ CleanupFires)

ViolationSpec == Init /\ [][ViolationNext]_vars /\ ViolationFairness

\* the page of the other tab as its script sees it: its own window and
\* sessionStorage, and the localStorage of the origin as it is now
InTab(tab) == [tab EXCEPT !.lsValidatedBiometrics = lsValidatedBiometrics, !.lsSessionValidations = lsSessionValidations, !.lsValidatedUserIds = lsValidatedUserIds, !.lsValidatedUserData = lsValidatedUserData]

\* what is the tab's own of a page state (the shared part is blanked)
OwnOfTab(st) == [st EXCEPT !.lsValidatedBiometrics = NoFlagsItem, !.lsSessionValidations = NoFlagsItem, !.lsValidatedUserIds = NoIdsItem, !.lsValidatedUserData = FALSE]

\* the script of the other tab handles a setBiometricValidated call: its maps
\* in memory and its sessionStorage change, and it writes to the shared
\* localStorage
OtherTabSetBiometricValidated ==
  \E a \in ViolationArguments :
    \E r \in {setBiometricValidated(InTab(otherTab), a[1], a[2], a[3])} :
       /\ ~otherTab.scriptFailed
       /\ SequencesInFlight(r.st) <= MaxTimers
       /\ otherTab' = OwnOfTab(r.st)
       /\ lsValidatedBiometrics' = r.st.lsValidatedBiometrics
       /\ lsSessionValidations' = r.st.lsSessionValidations
       /\ lsValidatedUserIds' = r.st.lsValidatedUserIds
       /\ lsValidatedUserData' = r.st.lsValidatedUserData
       /\ lastCall' = [Call("otherTab.setBiometricValidated") EXCEPT !.branch = r.call.branch, !.isValidated = TRUE, !.shows = r.call.shows, !.rendered = r.call.rendered]
       /\ UNCHANGED <<validatedBiometrics, sessionValidations, validatedUserIds, animationVisible, ssWelcomeShown, ssViolation, ssMismatchIds, windowValidatedUserData, scriptFailed, overlayShown, welcomeVisible, redirectScheduled, replayTimer, fetchPending, t500Pending, t5000Pending, cleanupPending, face, voice>>

\* the other tab is reloaded: its script reads the shared localStorage
OtherTabReload ==
  /\ otherTab' = OwnOfTab(LoadPage(InTab(otherTab)))
  /\ lastCall' = Call("otherTab.load")
  /\ UNCHANGED <<validatedBiometrics, sessionValidations, validatedUserIds, animationVisible, lsValidatedBiometrics, lsSessionValidations, lsValidatedUserIds, ssWelcomeShown, ssViolation, ssMismatchIds, lsValidatedUserData, windowValidatedUserData, scriptFailed, overlayShown, welcomeVisible, redirectScheduled, replayTimer, fetchPending, t500Pending, t5000Pending, cleanupPending, face, voice>>

\* two tabs of the origin, both open from the start, with the capture widgets
\* of either reporting validations
TabsNext ==
  \/ SetBiometricValidatedOfTwo
  \/ OtherTabSetBiometricValidated
  \/ Reload
  \/ OtherTabReload

TabsSpec == Init /\ [][TabsNext]_vars

\* ------------------------------------------------- vocabulary of the claims
\* every record is {validated: false, userId: null}, in memory and as stored
AllReset(st) ==
  /\ \A k \in DOMAIN st.validatedBiometrics : ~st.validatedBiometrics[k]
  /\ \A k \in DOMAIN st.validatedUserIds : st.validatedUserIds[k] = Null
  /\ \A k \in FactorSet : ~LoadFlags(st.lsValidatedBiometrics)[k] /\ LoadIds(st.lsValidatedUserIds)[k] = Null

SessionReset(st) ==
  /\ \A k \in DOMAIN st.sessionValidations : ~st.sessionValidations[k]
  /\ \A k \in FactorSet : ~LoadFlags(st.lsSessionValidations)[k]

\* the all-default state of both stores
DefaultState(st) == AllReset(st) /\ SessionReset(st)

\* a clean session: default stores, nothing shown, recorded or scheduled
CleanSession(st) == DefaultState(st) /\ ~st.animationVisible /\ ~st.overlayShown /\ ~st.ssViolation /\ ~st.ssWelcomeShown /\ ~st.redirectScheduled

\* the state in which f alone has been validated, for u, in a clean session
AfterFirstValidation(st, f, u) ==
  /\ st.validatedBiometrics = [DefaultFlags EXCEPT ![f] = TRUE]
  /\ st.sessionValidations = [DefaultFlags EXCEPT ![f] = TRUE]
  /\ st.validatedUserIds = [DefaultUserIds EXCEPT ![f] = u]
  /\ LoadFlags(st.lsValidatedBiometrics) = st.validatedBiometrics
  /\ LoadFlags(st.lsSessionValidations) = st.sessionValidations
  /\ LoadIds(st.lsValidatedUserIds) = st.validatedUserIds
  /\ ~st.animationVisible /\ ~st.overlayShown /\ ~st.ssViolation /\ ~st.ssWelcomeShown /\ ~st.redirectScheduled

\* two validated factors carry non-null ids that differ as strings
MismatchIn(st) ==
  \E f, g \in DOMAIN st.validatedBiometrics :
    /\ st.validatedBiometrics[f] /\ st.validatedBiometrics[g]
    /\ st.validatedUserIds[f] # Null /\ st.validatedUserIds[g] # Null
    /\ String(st.validatedUserIds[f]) # String(st.validatedUserIds[g])

\* the call r ran a security-violation flow: marker, reset, redirect
\* (from the decision of setBiometricValidated or from the sequencer it called)
ViolationFlowRan(r) ==
  /\ r.call.branch = "violation" \/ (r.call.branch = "show" /\ ~r.call.rendered)
  /\ r.st.ssViolation
  /\ r.st.redirectScheduled

\* the call r triggered the success sequence, which rendered, once
TriggeredOnce(pre, r) == r.call.shows = 1 /\ r.call.rendered /\ r.st.animationVisible /\ r.st.overlayShown /\ r.st.fetchPending = pre.fetchPending + 1

\* the call r did not trigger the success sequence
NotTriggered(pre, r) == r.call.shows = 0 /\ r.st.fetchPending = pre.fetchPending /\ (r.st.animationVisible => pre.animationVisible) /\ (r.st.overlayShown => pre.overlayShown)

RealIds == UserIds \ {Null}

\* ----------------------------------------------------------------------- C1
\* C1: from the all-default state, validating f for u and then a different
\* factor g for v, where u and v differ as strings, runs the security-
\* violation flow in the second call (marker recorded, redirect scheduled)
\* and leaves every record {validated: false, userId: null}.
C1_MismatchDetection ==
  DefaultState(Cur) =>
    \A f, g \in FactorSet, u, v \in RealIds :
      (f # g /\ String(u) # String(v)) =>
        LET r1 == setBiometricValidated(Cur, f, TRUE, u)
            r2 == setBiometricValidated(r1.st, g, TRUE, v)
        IN /\ ~ViolationFlowRan(r1) \/ Cur.ssViolation \/ Cur.redirectScheduled
           /\ r1.st.validatedBiometrics[f] /\ r1.st.validatedUserIds[f] = u
           /\ ViolationFlowRan(r2)
           /\ AllReset(r2.st)

\* a violation flow started by a fresh validation has just reset everything
C1_Witness ==
  /\ lastCall.op = "setBiometricValidated" /\ lastCall.branch = "violation"
  /\ lastCall.isNewSessionValidation /\ ~lastCall.wasVisible
  /\ AllReset(Cur) /\ ssViolation /\ redirectScheduled

\* ----------------------------------------------------------------------- C2
\* C2: after every call no two validated factors carry non-null user ids
\* that differ as strings, and every setBiometricValidated call in which the
\* checker found such a pair has ended with all state reset and a redirect
\* scheduled.
KnownSetCall == lastCall.op = "setBiometricValidated" /\ lastCall.branch # "unknown"

C2_NoToleratedMismatch ==
  /\ ~MismatchIn(Cur)
  /\ (KnownSetCall /\ ~lastCall.doUsersMatch) =>
       /\ DefaultState(Cur)
       /\ redirectScheduled
       /\ ~animationVisible

\* a repeated validation that brought a different id was answered by a reset
C2_Witness ==
  /\ lastCall.op = "setBiometricValidated" /\ lastCall.branch = "violation"
  /\ lastCall.isValidated /\ ~lastCall.isNewSessionValidation
  /\ DefaultState(Cur) /\ redirectScheduled

\* ----------------------------------------------------------------------- C3
\* C3: from a clean session, validating f for the number n and then g for the
\* string of n is treated as matching: no marker, no reset, no redirect, and
\* the success animation is shown.
C3_StringNumberTolerance ==
  \A f, g \in FactorSet :
    (f # g /\ AfterFirstValidation(Cur, f, Num(7))) =>
      LET r2 == setBiometricValidated(Cur, g, TRUE, Str(7))
      IN /\ ~r2.st.ssViolation
         /\ ~r2.st.redirectScheduled
         /\ r2.st.validatedBiometrics[f] /\ r2.st.validatedBiometrics[g]
         /\ r2.st.validatedUserIds[f] = Num(7) /\ r2.st.validatedUserIds[g] = Str(7)
         /\ r2.st.animationVisible

\* ----------------------------------------------------------------------- C4
\* C4: from a clean session with no animation visible, validating f for u
\* does not trigger the success animation, and then validating a different
\* factor g for the same u triggers it exactly once.
C4_FreshDoubleValidation ==
  CleanSession(Cur) =>
    \A f, g \in FactorSet, u \in UserIds :
      f # g =>
        LET r1 == setBiometricValidated(Cur, f, TRUE, u)
            r2 == setBiometricValidated(r1.st, g, TRUE, u)
        IN /\ NotTriggered(Cur, r1) /\ r1.call.branch = "none"
           /\ TriggeredOnce(r1.st, r2)

\* the second fresh validation has just made the overlay visible
C4_Witness ==
  /\ lastCall.op = "setBiometricValidated" /\ lastCall.branch = "show" /\ lastCall.rendered
  /\ lastCall.isNewSessionValidation
  /\ animationVisible /\ fetchPending = 1
  /\ CountTrue(validatedBiometrics) = 2 /\ CountTrue(sessionValidations) = 2

\* ----------------------------------------------------------------------- C5
\* C5: a validation of a factor whose session flag was already true has never
\* triggered the success animation, whatever the counts and the visibility.
C5_RepeatDoesNotRetrigger ==
  (KnownSetCall /\ lastCall.isValidated /\ lastCall.wasSessionValidated) =>
    /\ lastCall.shows = 0
    /\ lastCall.branch # "show"
    /\ animationVisible => lastCall.wasVisible

\* a repeat validation met every other condition of the success row
C5_Witness ==
  /\ lastCall.op = "setBiometricValidated" /\ lastCall.branch = "none"
  /\ lastCall.isValidated /\ lastCall.wasSessionValidated /\ ~lastCall.wasVisible
  /\ lastCall.validCount >= 2 /\ lastCall.sessionCount >= 2 /\ lastCall.doUsersMatch
  /\ CountTrue(validatedBiometrics) >= 2 /\ CountTrue(sessionValidations) >= 2
  /\ ~animationVisible /\ ~MismatchIn(Cur)

\* ----------------------------------------------------------------------- C6
\* C6: whenever a call meets the success row (after the store update
\* validCount >= 2, animation not visible, new session validation,
\* sessionCount >= 2, checker true), AnimationVisibility is true when it
\* returns and neither store has been reset.
C6_SuccessRow ==
  \A type \in FactorSet, userId \in UserIds :
    LET s1 == StoreUpdate(Cur, type, TRUE, userId)
        r == setBiometricValidated(Cur, type, TRUE, userId)
    IN (/\ CountTrue(s1.validatedBiometrics) >= 2
        /\ ~Cur.animationVisible
        /\ ~Cur.sessionValidations[type]
        /\ CountTrue(s1.sessionValidations) >= 2
        /\ ~MismatchIn(s1))
       => /\ r.st.animationVisible
          /\ r.st.validatedBiometrics = s1.validatedBiometrics
          /\ r.st.validatedUserIds = s1.validatedUserIds
          /\ r.st.sessionValidations = s1.sessionValidations

\* ----------------------------------------------------------------------- C7
\* C7: a call that found validCount >= 2 after the store update and a false
\* checker result has run the security-violation flow (marker, full reset,
\* redirect), whatever the visibility, the session flag of the factor and
\* sessionCount were, and has not triggered the success animation.
C7_ViolationPriority ==
  (KnownSetCall /\ lastCall.validCount >= 2 /\ ~lastCall.doUsersMatch) =>
    /\ lastCall.branch = "violation"
    /\ ssViolation /\ redirectScheduled
    /\ DefaultState(Cur)
    /\ lastCall.shows = 0 /\ ~animationVisible

\* a violation flow has just run although the animation was visible
C7_Witness ==
  /\ lastCall.op = "setBiometricValidated" /\ lastCall.branch = "violation"
  /\ lastCall.wasVisible
  /\ ssViolation /\ redirectScheduled /\ ~animationVisible /\ AllReset(Cur)

\* ----------------------------------------------------------------------- C8
\* C8: a call of a known factor that matches neither the violation row nor
\* the success row triggers no animation, resets nothing, schedules no
\* navigation and records no marker: it changes the entries of one factor
\* only, and the stored maps are the new maps.
ViolationRow(c) == c.validCount >= 2 /\ ~c.doUsersMatch

SuccessRow(c) == c.validCount >= 2 /\ ~c.wasVisible /\ c.isValidated /\ ~c.wasSessionValidated /\ c.sessionCount >= 2 /\ c.doUsersMatch

OnlyStoreUpdateOfOneFactor ==
  /\ \E type \in FactorSet :
       /\ \A k \in FactorSet \ {type} :
            /\ validatedBiometrics'[k] = validatedBiometrics[k]
            /\ sessionValidations'[k] = sessionValidations[k]
            /\ validatedUserIds'[k] = validatedUserIds[k]
       /\ validatedBiometrics'[type] = lastCall'.isValidated
       /\ lastCall'.isValidated => sessionValidations'[type]
       /\ ~lastCall'.isValidated => (validatedUserIds'[type] = Null /\ sessionValidations'[type] = sessionValidations[type])
  /\ LoadFlags(lsValidatedBiometrics') = validatedBiometrics'
  /\ LoadFlags(lsSessionValidations') = sessionValidations'
  /\ LoadIds(lsValidatedUserIds') = validatedUserIds'
  /\ UNCHANGED <<animationVisible, overlayShown, welcomeVisible, ssViolation, ssMismatchIds, lsValidatedUserData, windowValidatedUserData, scriptFailed, ssWelcomeShown, redirectScheduled, replayTimer, fetchPending, t500Pending, t5000Pending, cleanupPending>>
  /\ lastCall'.shows = 0

C8_NoOpRow ==
  [][(lastCall'.op = "setBiometricValidated" /\ lastCall'.branch # "unknown" /\ ~ViolationRow(lastCall') /\ ~SuccessRow(lastCall')) => OnlyStoreUpdateOfOneFactor]_vars

\* the first validation of a session was a silent no-op: one validated factor,
\* nothing recorded, shown or scheduled
C8_Witness ==
  /\ lastCall.op = "setBiometricValidated" /\ lastCall.branch = "none"
  /\ lastCall.isValidated /\ lastCall.isNewSessionValidation
  /\ CountTrue(validatedBiometrics) = 1
  /\ ~ssViolation /\ ~redirectScheduled /\ ~animationVisible /\ fetchPending = 0

\* ----------------------------------------------------------------------- C9
\* C9: a page load sets the replay trigger if and only if the stored
\* validated flags count >= 2, the stored session flags count >= 2 and no
\* animation is visible; the trigger is set by nothing else, and it fires at
\* most once per load, calling the sequencer once without any
\* setBiometricValidated call.
PageLoadOps == {"load", "redirect", "newSession"}

ReplayCondition == CountTrue(LoadFlags(lsValidatedBiometrics)) >= 2 /\ CountTrue(LoadFlags(lsSessionValidations)) >= 2 /\ ~animationVisible

C9_PageLoadReplay ==
  /\ [][lastCall'.op \in PageLoadOps => (replayTimer' <=> ReplayCondition')]_vars
  /\ [][(replayTimer' /\ ~replayTimer) => lastCall'.op \in PageLoadOps]_vars
  /\ [][lastCall'.op = "replay" => (replayTimer /\ ~replayTimer' /\ lastCall'.shows = 1)]_vars
  /\ [][(lastCall'.shows = 1 /\ lastCall'.op # "setBiometricValidated") => (lastCall'.op = "replay" /\ replayTimer)]_vars

\* the replay has just shown the animation
C9_Witness ==
  /\ lastCall.op = "replay" /\ lastCall.rendered
  /\ animationVisible /\ ~replayTimer
  /\ CountTrue(validatedBiometrics) >= 2 /\ CountTrue(sessionValidations) >= 2

\* ---------------------------------------------------------------------- C10
\* C10: when a new browser session initialises the module every session flag
\* is false, so the page-load replay is not set in a new session.
C10_SessionScoped ==
  [][lastCall'.op = "newSession" => ((\A k \in FactorSet : ~sessionValidations'[k]) /\ ~replayTimer')]_vars

\* ---------------------------------------------------------------------- C11
\* C11: in every reachable state, in memory and in the stored maps, a factor
\* has a non-null user id only if its validated flag is true; and from every
\* reachable state setBiometricValidated(f, false) leaves the user id of f
\* null, in memory and in the stored map.
NoStaleIdentity(st) ==
  /\ \A k \in DOMAIN st.validatedUserIds : st.validatedUserIds[k] # Null => st.validatedBiometrics[k]
  /\ \A k \in FactorSet : LoadIds(st.lsValidatedUserIds)[k] # Null => LoadFlags(st.lsValidatedBiometrics)[k]

C11_NoStaleIdentity ==
  /\ NoStaleIdentity(Cur)
  /\ \A f \in FactorSet :
       \A r \in {setBiometricValidated(Cur, f, FALSE, Null)} :
         /\ r.st.validatedUserIds[f] = Null
         /\ LoadIds(r.st.lsValidatedUserIds)[f] = Null
         /\ NoStaleIdentity(r.st)

\* a factor that carried a user id has just been invalidated
C11_Witness ==
  /\ KnownSetCall /\ ~lastCall.isValidated /\ lastCall.wasSessionValidated
  /\ lastCall.branch = "none"
  /\ \E f, g \in FactorSet :
       /\ sessionValidations[f] /\ ~validatedBiometrics[f] /\ validatedUserIds[f] = Null
       /\ validatedBiometrics[g] /\ validatedUserIds[g] # Null

\* ---------------------------------------------------------------------- C12
\* C12: in a state with at most one validated factor the checker returns
\* true, whatever user ids the map holds, and writes no violation marker.
CheckerCalled == lastCall'.op = "doValidatedBiometricsMatchSameUser"

C12_VacuousTruth ==
  [][(CheckerCalled /\ CountTrue(validatedBiometrics) <= 1) =>
       (lastCall'.doUsersMatch /\ UNCHANGED <<ssViolation, ssMismatchIds>>)]_vars

\* the checker returned true with one validated factor although the map
\* holds two ids of different text
C12_Witness ==
  /\ lastCall.op = "doValidatedBiometricsMatchSameUser" /\ lastCall.doUsersMatch
  /\ CountTrue(validatedBiometrics) = 1
  /\ ~ssViolation /\ ~ssMismatchIds
  /\ \E f, g \in FactorSet :
       /\ validatedBiometrics[f] /\ validatedUserIds[f] = Str(7)
       /\ ~validatedBiometrics[g] /\ validatedUserIds[g] = Str(8)

\* ---------------------------------------------------------------------- C13
\* C13: the checker returns true if and only if no two factors that are
\* validated and have a non-null id differ in the text of their ids; the ids
\* of other factors and null ids have no influence.
C13_CheckerResult ==
  [][CheckerCalled => (lastCall'.doUsersMatch <=> ~MismatchIn(Cur))]_vars

\* the checker returned true for a number and the string of the same text,
\* beside a validated factor without id and another id on a factor that is
\* not validated
C13_Witness ==
  /\ lastCall.op = "doValidatedBiometricsMatchSameUser" /\ lastCall.doUsersMatch
  /\ \E f, g, h, i \in FactorSet :
       /\ validatedBiometrics[f] /\ validatedUserIds[f] = Num(7)
       /\ validatedBiometrics[g] /\ validatedUserIds[g] = Str(7)
       /\ validatedBiometrics[h] /\ validatedUserIds[h] = Null
       /\ ~validatedBiometrics[i] /\ validatedUserIds[i] = Str(8)

\* ---------------------------------------------------------------------- C14
\* C14: the checker changes neither store, welcomeShown nor the visibility
\* (nor anything else of the page); it writes the violation marker and the
\* list of mismatched ids to sessionStorage exactly when it returns false.
C14_CheckerEffects ==
  [][CheckerCalled =>
       /\ UNCHANGED <<validatedBiometrics, sessionValidations, validatedUserIds, lsValidatedBiometrics, lsSessionValidations, lsValidatedUserIds, ssWelcomeShown, animationVisible>>
       /\ UNCHANGED <<lsValidatedUserData, windowValidatedUserData, scriptFailed, overlayShown, welcomeVisible, redirectScheduled, replayTimer, fetchPending, t500Pending, t5000Pending, cleanupPending>>
       /\ lastCall'.doUsersMatch => UNCHANGED <<ssViolation, ssMismatchIds>>
       /\ ~lastCall'.doUsersMatch => (ssViolation' /\ ssMismatchIds')]_vars

\* the checker returned false and left both items in sessionStorage
C14_Witness ==
  /\ lastCall.op = "doValidatedBiometricsMatchSameUser" /\ ~lastCall.doUsersMatch
  /\ ssViolation /\ ssMismatchIds
  /\ MismatchIn(Cur)

\* ---------------------------------------------------------------------- C15
\* C15: after resetBiometricValidations every validated flag and session
\* flag is false and every user id null, in memory and in the stored maps,
\* welcomeShown is cleared, animationVisible is false, and no cached
\* user/vehicle bundle is left for a later success or welcome presentation.
C15_ResetAllPostcondition ==
  lastCall.op = "resetBiometricValidations" =>
    /\ DefaultState(Cur)
    /\ ~ssWelcomeShown
    /\ ~animationVisible
    /\ ~lsValidatedUserData
    /\ ~windowValidatedUserData

\* ---------------------------------------------------------------------- C16
\* C16: from every state, resetBiometricValidations called twice in a row
\* leaves the same in-memory and stored state as called once.
C16_ResetIdempotent ==
  \A once \in {resetBiometricValidations(Cur)} : resetBiometricValidations(once) = once

\* a reset has zeroed both stores on a page that had shown the overlay and
\* recorded a violation; a second reset finds nothing to change
C16_Witness ==
  /\ lastCall.op = "resetBiometricValidations"
  /\ DefaultState(Cur) /\ overlayShown /\ ssViolation /\ windowValidatedUserData
  /\ resetBiometricValidations(Cur) = Cur

\* ---------------------------------------------------------------------- C17
\* C17: resetSessionValidations sets every session flag to false, in memory
\* and in the stored map, and clears welcomeShown; it leaves the validated
\* flags, the user ids, the violation marker and animationVisible (and
\* everything else of the page) unchanged.
C17_ResetSessionFrame ==
  [][lastCall'.op = "resetSessionValidations" =>
       /\ \A k \in DOMAIN sessionValidations' : ~sessionValidations'[k]
       /\ LoadFlags(lsSessionValidations') = sessionValidations'
       /\ ~ssWelcomeShown'
       /\ UNCHANGED <<validatedBiometrics, validatedUserIds, lsValidatedBiometrics, lsValidatedUserIds, ssViolation, ssMismatchIds, animationVisible>>
       /\ UNCHANGED <<lsValidatedUserData, windowValidatedUserData, scriptFailed, overlayShown, welcomeVisible, redirectScheduled, replayTimer, fetchPending, t500Pending, t5000Pending, cleanupPending>>]_vars

\* the session flags are gone while validated factors, their ids, the marker
\* and the visibility are still there
C17_Witness ==
  /\ lastCall.op = "resetSessionValidations"
  /\ \A k \in FactorSet : ~sessionValidations[k]
  /\ CountTrue(validatedBiometrics) >= 2
  /\ \E k \in FactorSet : validatedUserIds[k] # Null
  /\ ssViolation /\ animationVisible /\ ~ssWelcomeShown

\* ---------------------------------------------------------------------- C18
\* C18: a setBiometricValidated call with a name outside the four factors,
\* also the name of an inherited property, takes the branch of the unknown
\* type: it changes no in-memory or stored state, sets no timer and triggers
\* neither the animation nor the violation flow.
C18_UnknownFactorIgnored ==
  [][(lastCall'.op = "setBiometricValidated" /\ ~lastCall'.knownFactor) =>
       /\ lastCall'.branch = "unknown" /\ lastCall'.shows = 0
       /\ UNCHANGED <<validatedBiometrics, sessionValidations, validatedUserIds, lsValidatedBiometrics, lsSessionValidations, lsValidatedUserIds, ssWelcomeShown, animationVisible>>
       /\ UNCHANGED <<ssViolation, ssMismatchIds, lsValidatedUserData, windowValidatedUserData, scriptFailed, overlayShown, welcomeVisible, redirectScheduled, replayTimer, fetchPending, t500Pending, t5000Pending, cleanupPending>>]_vars

\* ---------------------------------------------------------------------- C19
\* C19: when the stored text of one of the three maps does not parse at
\* module initialisation, the initialisation still completes, that map is
\* its all-false / all-null default, and the exported operations exist.
C19_MalformedFallsBack ==
  lastCall.op = "load" =>
    /\ ~scriptFailed
    /\ Malformed(lsValidatedBiometrics) => validatedBiometrics = DefaultFlags
    /\ Malformed(lsSessionValidations) => sessionValidations = DefaultFlags
    /\ Malformed(lsValidatedUserIds) => validatedUserIds = DefaultUserIds

\* ---------------------------------------------------------------------- C20
\* C20: from the start of a security-violation flow until its scheduled
\* navigation has happened, no factor is accepted as validated and no success
\* animation is triggered on that page, whatever setValidated events arrive.
C20_HardStop ==
  redirectScheduled =>
    /\ \A k \in DOMAIN validatedBiometrics : ~validatedBiometrics[k]
    /\ ~animationVisible

\* ---------------------------------------------------------------------- C21
\* the handler that has just run carried out a security-violation flow: the
\* decision of setBiometricValidated, the re-check of the sequencer (called by
\* setBiometricValidated or by the replay timer) or the check of the welcome
FlowJustRan ==
  \/ KnownSetCall /\ (lastCall.branch = "violation" \/ (lastCall.branch = "show" /\ ~lastCall.rendered))
  \/ lastCall.op = "replay" /\ ~lastCall.rendered
  \/ lastCall.op = "transition" /\ lastCall.branch = "refused"

\* C21: when the handler that ran a security-violation flow returns, all
\* state is reset, the marker is set and the navigation is scheduled; the
\* scheduled navigation is taken away by nothing but its own firing; it
\* always fires, and leaves no second navigation behind.
C21_ViolationFlowCompletes ==
  /\ [][/\ (FlowJustRan => (DefaultState(Cur) /\ ~animationVisible /\ ssViolation /\ redirectScheduled))'
        /\ (redirectScheduled /\ ~redirectScheduled') => lastCall'.op = "redirect"
        /\ lastCall'.op = "redirect" => ~redirectScheduled']_vars
  /\ (redirectScheduled ~> lastCall.op = "redirect")

\* the navigation of a violation flow has happened
C21_Witness ==
  /\ lastCall.op = "redirect"
  /\ ssViolation
  /\ ~redirectScheduled
  /\ \A k \in FactorSet : ~LoadFlags(lsSessionValidations)[k]

\* ---------------------------------------------------------------------- C22
\* two validated factors do not carry the same user id (null, a number and
\* the string of its text are three different ids)
IdsDiffer(st) ==
  \E f, g \in DOMAIN st.validatedBiometrics :
    /\ st.validatedBiometrics[f] /\ st.validatedBiometrics[g]
    /\ IdOf(st.validatedUserIds, f) # IdOf(st.validatedUserIds, g)

\* C22: a call of the sequencer (by setBiometricValidated or by the replay
\* timer) that does not render leaves the overlay and the loads in flight as
\* they were, the visibility flag false, all state reset, the marker set and
\* the redirect scheduled; a call that renders makes the overlay visible in a
\* state in which all validated factors carry the same user id.
C22_RenderTimeRecheck ==
  [][lastCall'.shows = 1 =>
       IF lastCall'.rendered
       THEN overlayShown' /\ animationVisible' /\ fetchPending' = fetchPending + 1 /\ ~IdsDiffer(Cur)'
       ELSE /\ overlayShown' = overlayShown /\ fetchPending' = fetchPending
            /\ ~animationVisible' /\ DefaultState(Cur)'
            /\ ssViolation' /\ redirectScheduled']_vars

\* the replay timer found validated factors with different ids and blocked
C22_Witness ==
  /\ lastCall.op = "replay" /\ lastCall.shows = 1 /\ ~lastCall.rendered
  /\ DefaultState(Cur) /\ ~animationVisible /\ ~overlayShown
  /\ ssViolation /\ redirectScheduled

\* ---------------------------------------------------------------------- C23
\* the record of factor f in both stores, in memory and as stored
FactorState(st, f) ==
  [validated |-> st.validatedBiometrics[f], userId |-> st.validatedUserIds[f], session |-> st.sessionValidations[f],
   lsValidated |-> LoadFlags(st.lsValidatedBiometrics)[f], lsUserId |-> LoadIds(st.lsValidatedUserIds)[f], lsSession |-> LoadFlags(st.lsSessionValidations)[f]]

\* the factors that calls are reported for
ReportedFactors == ReportedTypes \cap FactorSet

\* the calls on one factor: (isValidated, userId); an invalidation reads no id
CallsOnFactor == {a \in BOOLEAN \X UserIds : a[1] \/ a[2] = Null}

\* C23 (as stated): after two calls on f without a violation flow the record
\* of f in both stores is what the second call alone leaves.
C23_LastWriteWins ==
  \A f \in ReportedFactors, a1, a2 \in CallsOnFactor :
    LET r1 == setBiometricValidated(Cur, f, a1[1], a1[2])
        r2 == setBiometricValidated(r1.st, f, a2[1], a2[2])
        alone == setBiometricValidated(Cur, f, a2[1], a2[2])
    IN (~ViolationFlowRan(r1) /\ ~ViolationFlowRan(r2) /\ ~ViolationFlowRan(alone)) =>
         FactorState(r2.st, f) = FactorState(alone.st, f)

\* C23 (amended): after two calls on f without a violation flow the validated
\* flag of f is the one of the second call; the user id of f is null when the
\* second call invalidates, the id of the second call when it carries one, and
\* otherwise the id the first call left; the session flag of f is true when
\* the second call validates and otherwise as the first call left it; the
\* stored maps say the same.
C23_LastWriteWinsWhereWritten ==
  \A f \in ReportedFactors, a1, a2 \in CallsOnFactor :
    LET r1 == setBiometricValidated(Cur, f, a1[1], a1[2])
        r2 == setBiometricValidated(r1.st, f, a2[1], a2[2])
        left == FactorState(r1.st, f)
        last == FactorState(r2.st, f)
    IN (~ViolationFlowRan(r1) /\ ~ViolationFlowRan(r2)) =>
         /\ last.validated = a2[1]
         /\ last.userId = (IF ~a2[1] THEN Null ELSE IF a2[2] # Null THEN a2[2] ELSE left.userId)
         /\ last.session = (a2[1] \/ left.session)
         /\ last.lsValidated = last.validated /\ last.lsUserId = last.userId /\ last.lsSession = last.session

\* a factor validated for an id has been validated again in the session
C23_Witness ==
  /\ KnownSetCall /\ lastCall.isValidated /\ lastCall.wasSessionValidated
  /\ lastCall.branch = "none"
  /\ \E f \in FactorSet : validatedBiometrics[f] /\ sessionValidations[f] /\ validatedUserIds[f] # Null

\* ---------------------------------------------------------------------- C24
\* the three stored maps are the serializations of the maps in memory (a key
\* that was never written stands for the default map)
WrittenThrough(st) ==
  /\ IF st.lsValidatedBiometrics.set THEN st.lsValidatedBiometrics.json /\ st.lsValidatedBiometrics.text = StringifyFlags(st.validatedBiometrics)
     ELSE st.validatedBiometrics = DefaultFlags
  /\ IF st.lsSessionValidations.set THEN st.lsSessionValidations.json /\ st.lsSessionValidations.text = StringifyFlags(st.sessionValidations)
     ELSE st.sessionValidations = DefaultFlags
  /\ IF st.lsValidatedUserIds.set THEN st.lsValidatedUserIds.json /\ st.lsValidatedUserIds.text = StringifyIds(st.validatedUserIds)
     ELSE st.validatedUserIds = DefaultUserIds

\* C24: after every call of the four operations each stored map is the full
\* serialization of the map in memory, and a reload of the page reads the
\* same three maps back.
C24_WriteThrough ==
  /\ WrittenThrough(Cur)
  /\ LoadPage(Cur).validatedBiometrics = validatedBiometrics
  /\ LoadPage(Cur).sessionValidations = sessionValidations
  /\ LoadPage(Cur).validatedUserIds = validatedUserIds
  /\ ~LoadPage(Cur).scriptFailed

\* a validation with an id and a change of a session flag have been stored
C24_Witness ==
  /\ lastCall.op = "setSessionValidation"
  /\ lsValidatedBiometrics.set /\ lsSessionValidations.set /\ lsValidatedUserIds.set
  /\ \E f \in FactorSet : validatedBiometrics[f] /\ validatedUserIds[f] # Null /\ ~sessionValidations[f]
  /\ LoadPage(Cur).validatedUserIds = validatedUserIds

\* ---------------------------------------------------------------------- C25
\* the call that has just returned, in either tab, ran no violation flow
SetCallWithoutFlow(c) ==
  /\ c.op \in {"setBiometricValidated", "otherTab.setBiometricValidated"}
  /\ c.branch \in {"none", "show"}
  /\ c.branch = "show" => c.rendered

\* C25: a validation that the shared store holds is still in the store after
\* a tab of the origin has handled a setValidated call without a violation
\* flow (every call writes the map it read from the store, changed).
C25_NoLostUpdate ==
  [][SetCallWithoutFlow(lastCall') =>
       \A f \in FactorSet :
         (lsValidatedBiometrics.set /\ LoadFlags(lsValidatedBiometrics)[f]) => LoadFlags(lsValidatedBiometrics')[f]]_vars

\* the sequencer with both outcomes of loading the animation asset: the
\* promise of fetch settles, resolved or rejected, and set timers fire
DismissNext == ViolationNext \/ FetchRejects

DismissFairness ==
  /\ SF_vars(ReplayTimerFires)
  /\ WF_vars(RedirectFires)
  /\ WF_vars(FetchResolves \/ FetchRejects \/ T500Fires \/ T5000Fires \/ CleanupFires)

DismissSpec == Init /\ [][DismissNext]_vars /\ DismissFairness

\* the sequencer with the close button of the overlay (and any caller of the
\* exported hideCarDoorAnimation) pressed at any moment
HideNext == ViolationNext \/ HideCarDoorAnimation

HideSpec == Init /\ [][HideNext]_vars

\* validations of three factors for one user: the third is a new session
\* validation on a page that loaded with two
ThreeFactorArguments == {<<"face", TRUE, Str(7)>>, <<"voice", TRUE, Str(7)>>, <<"retina", TRUE, Str(7)>>}

\* a capture widget reports one of these validations; one sequence more than
\* MaxTimers may be in flight
SetBiometricValidatedOfThree ==
  \E a \in ThreeFactorArguments :
    \E r \in {setBiometricValidated(Cur, a[1], a[2], a[3])} :
       /\ ~scriptFailed
       /\ SequencesInFlight(r.st) <= MaxTimers + 1
       /\ Becomes(r.st)
       /\ lastCall' = [Call("setBiometricValidated") EXCEPT !.branch = r.call.branch, !.isValidated = TRUE, !.shows = r.call.shows, !.rendered = r.call.rendered]

\* the 500 ms timer of the DOMContentLoaded handler fires, possibly while a
\* sequence started after the page load is playing
ReplayTimerFiresWhilePlaying ==
  /\ replayTimer
  /\ \E r \in {showCarDoorAnimation([Cur EXCEPT !.replayTimer = FALSE])} :
        /\ SequencesInFlight(r.st) <= MaxTimers + 1
        /\ Becomes(r.st)
        /\ lastCall' = [Call("replay") EXCEPT !.shows = 1, !.rendered = r.ret]

\* page loads, validations and the replay timer in any order, with the steps
\* of the sequences they start
OverlapNext ==
  \/ SetBiometricValidatedOfThree
  \/ ReplayTimerFiresWhilePlaying
  \/ Reload
  \/ FetchResolves
  \/ T500Fires
  \/ T5000Fires
  \/ CleanupFires

OverlapSpec == Init /\ [][OverlapNext]_vars

\* the face capture page has loaded and asked for the camera; its markup
\* may show either element and enable any of the buttons
FaceInit ==
  /\ validatedBiometrics = DefaultFlags
  /\ sessionValidations = DefaultFlags
  /\ validatedUserIds = DefaultUserIds
  /\ animationVisible = FALSE
  /\ lsValidatedBiometrics = NoFlagsItem
  /\ lsSessionValidations = NoFlagsItem
  /\ lsValidatedUserIds = NoIdsItem
  /\ ssWelcomeShown = FALSE
  /\ ssViolation = FALSE
  /\ ssMismatchIds = FALSE
  /\ lsValidatedUserData = FALSE
  /\ windowValidatedUserData = FALSE
  /\ scriptFailed = FALSE
  /\ overlayShown = FALSE
  /\ welcomeVisible = FALSE
  /\ redirectScheduled = FALSE
  /\ replayTimer = FALSE
  /\ fetchPending = 0
  /\ t500Pending = 0
  /\ t5000Pending = 0
  /\ cleanupPending = 0
  /\ lastCall = Call("load")
  /\ otherTab = FirstPage
  /\ face \in {FaceMarkup(v, c, b[1], b[2], b[3]) : v \in BOOLEAN, c \in BOOLEAN, b \in BOOLEAN \X BOOLEAN \X BOOLEAN}
  /\ voice = VoiceLoaded

\* getCameraStream resolves
FaceCameraStarts ==
  /\ face.camera = "pending" /\ ~face.submitted
  /\ face' = [startFaceCapture(face) EXCEPT !.lastOp = "started"]
  /\ UNCHANGED <<pageVars, voice>>

\* getCameraStream rejects: the catch shows the error
FaceCameraDenied ==
  /\ face.camera = "pending" /\ ~face.submitted
  /\ face' = [face EXCEPT !.camera = "denied", !.lastOp = "denied"]
  /\ UNCHANGED <<pageVars, voice>>

\* a click on the capture button (a disabled button gets no click)
CaptureClick ==
  /\ ~face.captureDisabled /\ ~face.submitted
  /\ \E throws \in BOOLEAN :
       face' = [captureFace(face, throws) EXCEPT !.lastOp = IF throws THEN "captureFailed" ELSE "capture"]
  /\ UNCHANGED <<pageVars, voice>>

\* a click on the retake button
RetakeClick ==
  /\ ~face.retakeDisabled /\ ~face.submitted
  /\ face' = [resetFaceCapture(face) EXCEPT !.lastOp = "retake"]
  /\ UNCHANGED <<pageVars, voice>>

\* a click on the save button; a submitted form navigates away
SaveClick ==
  /\ ~face.saveDisabled /\ ~face.submitted
  /\ \E throws \in BOOLEAN :
       face' = [saveFaceBiometric(face, throws) EXCEPT !.lastOp = IF throws THEN "saveFailed" ELSE "save"]
  /\ UNCHANGED <<pageVars, voice>>

FaceNext ==
  \/ FaceCameraStarts
  \/ FaceCameraDenied
  \/ CaptureClick
  \/ RetakeClick
  \/ SaveClick

FaceSpec == FaceInit /\ [][FaceNext]_vars

\* at most this many microphone streams are asked for on one page
MaxStreams == 3

\* a click on the start button (a disabled button gets no click)
VoiceStartClick ==
  /\ ~voice.startDisabled /\ ~voice.submitted
  /\ voice.acquired + voice.awaiting < MaxStreams
  /\ \E throws \in BOOLEAN :
       voice' = [startVoiceRecording(voice, throws) EXCEPT !.lastOp = "start"]
  /\ UNCHANGED <<pageVars, face>>

\* getAudioStream resolves for the oldest pending request
VoiceGranted ==
  /\ voice.awaiting > 0 /\ ~voice.submitted
  /\ voice' = [VoiceStreamGranted(voice) EXCEPT !.lastOp = "granted"]
  /\ UNCHANGED <<pageVars, face>>

\* getAudioStream rejects: the catch shows the error
VoiceDenied ==
  /\ voice.awaiting > 0 /\ ~voice.submitted
  /\ voice' = [voice EXCEPT !.awaiting = @ - 1, !.lastOp = "denied"]
  /\ UNCHANGED <<pageVars, face>>

\* a click on the stop button
VoiceStopClick ==
  /\ ~voice.stopDisabled /\ ~voice.submitted
  /\ \E throws \in BOOLEAN :
       voice' = [stopVoiceRecording(voice, throws).v EXCEPT !.lastOp = "stop"]
  /\ UNCHANGED <<pageVars, face>>

\* the stop event of a stopped recorder is handled
VoiceStopEvent ==
  /\ ~voice.submitted
  /\ \E n \in voice.stopEvents :
       voice' = [VoiceRecorderStopped(voice, n) EXCEPT !.lastOp = "stopped"]
  /\ UNCHANGED <<pageVars, face>>

\* a click on the retake button
VoiceRetakeClick ==
  /\ ~voice.retakeDisabled /\ ~voice.submitted
  /\ \E throws \in BOOLEAN :
       voice' = [resetVoiceCapture(voice, throws).v EXCEPT !.lastOp = "retake"]
  /\ UNCHANGED <<pageVars, face>>

\* a click on the save button; a submitted form navigates away
VoiceSaveClick ==
  /\ ~voice.saveDisabled /\ ~voice.submitted
  /\ voice' = [saveVoiceBiometric(voice) EXCEPT !.lastOp = "save"]
  /\ UNCHANGED <<pageVars, face>>

VoiceNext ==
  \/ VoiceStartClick
  \/ VoiceGranted
  \/ VoiceDenied
  \/ VoiceStopClick
  \/ VoiceStopEvent
  \/ VoiceRetakeClick
  \/ VoiceSaveClick

VoiceSpec == Init /\ [][VoiceNext]_vars

\* ---------------------------------------------------------------------- C26
\* C26: in every state the visibility flag is true exactly when the success
\* overlay is displayed.
C26_VisibilityTruthful == animationVisible <=> overlayShown

\* ---------------------------------------------------------------------- C27
\* C27: the welcome presentation comes up only while the shown marker is
\* unset and sets it, and a success sequence whose transition timer fires
\* while the marker is unset shows the welcome presentation and sets the
\* marker.
C27_WelcomeOncePerSession ==
  [][/\ (~welcomeVisible /\ welcomeVisible') => (~ssWelcomeShown /\ ssWelcomeShown')
     /\ (lastCall'.op = "transition" /\ ~ssWelcomeShown) => (welcomeVisible' /\ ssWelcomeShown')]_vars

\* ---------------------------------------------------------------------- C28
\* C28: a success sequence that became visible is eventually dismissed with
\* no user action: whenever the visibility flag is true it later becomes
\* false, whether the animation asset loads or not.
C28_AutoDismiss == animationVisible ~> ~animationVisible

\* ---------------------------------------------------------------------- C29
\* C29: hideCarDoorAnimation called in any state leaves the three stores,
\* their stored items and the welcome marker unchanged, takes the overlay
\* off the screen and sets its clean-up, and after a clean-up has run the
\* visibility flag is false.
C29_HideIsSafe ==
  [][/\ lastCall'.op = "hideCarDoorAnimation" =>
          /\ UNCHANGED <<validatedBiometrics, sessionValidations, validatedUserIds>>
          /\ UNCHANGED <<lsValidatedBiometrics, lsSessionValidations, lsValidatedUserIds>>
          /\ UNCHANGED <<ssWelcomeShown, scriptFailed, animationVisible>>
          /\ ~overlayShown'
          /\ cleanupPending' = cleanupPending + 1
     /\ lastCall'.op = "cleanup" => ~animationVisible']_vars

\* hide was called on a playing sequence with two factors validated
C29_Witness ==
  /\ lastCall.op = "hideCarDoorAnimation"
  /\ animationVisible /\ ~overlayShown /\ cleanupPending > 0
  /\ validatedBiometrics["face"] /\ validatedBiometrics["voice"]
  /\ LoadFlags(lsValidatedBiometrics)["face"]

\* ---------------------------------------------------------------------- C30
\* C30: after one call on a known factor f that runs no violation flow the
\* validated flag of f is isValidated; when isValidated the session flag of
\* f is true and the user id of f is the id of the call if it carries one
\* and the previous id if it carries none; when not isValidated the user id
\* of f is null and the session flag of f is as before.
C30_StoreUpdate ==
  \A f \in ReportedFactors, a \in CallsOnFactor :
    LET r == setBiometricValidated(Cur, f, a[1], a[2])
        before == FactorState(Cur, f)
        after == FactorState(r.st, f)
    IN ~ViolationFlowRan(r) =>
         /\ after.validated = a[1]
         /\ a[1] => (after.session /\ after.userId = (IF a[2] # Null THEN a[2] ELSE before.userId))
         /\ ~a[1] => (after.userId = Null /\ after.session = before.session)

\* a validated factor holds an id and a session flag, and each of the three
\* kinds of call on it runs no violation flow: a validation with another
\* id, a validation with no id and an invalidation
C30_Witness ==
  /\ KnownSetCall /\ ~ssViolation
  /\ \E f \in ReportedFactors :
       /\ validatedBiometrics[f] /\ sessionValidations[f] /\ validatedUserIds[f] = Str(7)
       /\ ~ViolationFlowRan(setBiometricValidated(Cur, f, TRUE, Str(8)))
       /\ ~ViolationFlowRan(setBiometricValidated(Cur, f, TRUE, Null))
       /\ ~ViolationFlowRan(setBiometricValidated(Cur, f, FALSE, Null))

\* ---------------------------------------------------------------------- C31
\* C31: whenever a call or the page-load replay renders the success overlay,
\* at least two factors are validated in the state it renders in.
C31_RendersOnlyWithTwo ==
  [][(lastCall'.shows = 1 /\ lastCall'.rendered) => countValidatedBiometrics(Cur)' >= 2]_vars

\* ---------------------------------------------------------------------- C32
\* C32: a call or the page-load replay that starts a success sequence (it
\* renders the overlay) finds the visibility flag false.
C32_NoStartWhileVisible ==
  [][(lastCall'.shows = 1 /\ lastCall'.rendered) => ~animationVisible]_vars

\* ---------------------------------------------------------------------- C33
\* C33: a call on a known factor f that runs no violation flow leaves the
\* validated flag, the user id and the session flag of every other factor,
\* in memory and as stored, and the welcome marker as they were.
C33_SetValidatedFrame ==
  \A f \in ReportedFactors, a \in CallsOnFactor :
    LET r == setBiometricValidated(Cur, f, a[1], a[2])
    IN ~ViolationFlowRan(r) =>
         /\ \A g \in FactorSet \ {f} : FactorState(r.st, g) = FactorState(Cur, g)
         /\ r.st.ssWelcomeShown = ssWelcomeShown

\* a call has just run while the welcome marker is set and another factor
\* is validated for an id, and a further validation runs no violation flow
C33_Witness ==
  /\ lastCall.op = "setBiometricValidated" /\ lastCall.branch = "none"
  /\ ssWelcomeShown /\ ~ssViolation
  /\ validatedBiometrics["voice"] /\ sessionValidations["voice"] /\ validatedUserIds["voice"] = Str(7)
  /\ ~ViolationFlowRan(setBiometricValidated(Cur, "face", TRUE, Str(7)))

\* ---------------------------------------------------------------------- C34
\* C34: the handler that ran a security-violation flow leaves the violation
\* marker set, and a marker that is set stays set through every call, reset,
\* timer and page load of the browser session.
C34_MarkerSurvives ==
  [][/\ FlowJustRan' => ssViolation'
     /\ (ssViolation /\ lastCall'.op # "newSession") => ssViolation']_vars

\* a reset has run on a page where the marker is set and no redirect is
\* pending any more
C34_Witness ==
  /\ lastCall.op \in {"resetBiometricValidations", "resetSessionValidations"}
  /\ ssViolation /\ ~redirectScheduled
  /\ DefaultState(Cur)

\* ---------------------------------------------------------------------- C35
\* C35: when the transition timer calls the welcome presentation and it
\* refuses to render, the welcome marker is unset afterwards, the welcome is
\* not displayed and the stores are as the reset left them.
C35_MarkerOnlyWhenShown ==
  [][(lastCall'.op = "transition" /\ lastCall'.branch = "refused") =>
        (~ssWelcomeShown' /\ ~welcomeVisible' /\ DefaultState(Cur)' /\ ssViolation' /\ redirectScheduled')]_vars

\* ---------------------------------------------------------------------- C36
\* the state after the session flag of type is set to v and the session map
\* is stored, with nothing else changed
OnlySessionFlagSet(st, type, v) ==
  LET sv == [st.sessionValidations EXCEPT ![type] = v]
  IN [st EXCEPT !.sessionValidations = sv, !.lsSessionValidations = [set |-> TRUE, json |-> TRUE, text |-> StringifyFlags(sv)]]

\* C36: setSessionValidation(type, v) on one of the four factors returns
\* true, sets the session flag of that factor to v, stores the session map
\* and changes nothing else (no other store, no overlay, timer, marker or
\* redirect); on any other name it returns false and changes nothing.
C36_SetSessionValidationFrame ==
  \A type \in FactorSet \cup UnknownTypes, v \in BOOLEAN :
    LET r == setSessionValidation(Cur, type, v)
    IN IF type \in FactorSet
       THEN r.ret /\ r.st = OnlySessionFlagSet(Cur, type, v)
       ELSE ~r.ret /\ r.st = Cur

\* ---------------------------------------------------------------------- C37
\* C37: once the camera has started, the save and retake buttons are enabled
\* only while the canvas is displayed and the video hidden, the capture
\* button only while the video is displayed and the canvas hidden, and
\* capture and save are never enabled together.
C37_FaceButtonStates ==
  face.camera = "started" =>
    /\ (~face.saveDisabled \/ ~face.retakeDisabled) => (face.canvasShown /\ ~face.videoShown)
    /\ ~face.captureDisabled => (face.videoShown /\ ~face.canvasShown)
    /\ ~(~face.captureDisabled /\ ~face.saveDisabled)

\* a save that failed on a captured frame: both buttons are enabled again
C37_Witness ==
  /\ face.camera = "started" /\ face.lastOp = "saveFailed"
  /\ ~face.saveDisabled /\ ~face.retakeDisabled /\ face.captureDisabled
  /\ face.canvasShown /\ ~face.videoShown

\* ---------------------------------------------------------------------- C38
\* C38: at most one recorder is recording at any time, and when the stop
\* event of a stopped recorder has been handled no acquired stream is live
\* and isRecording is false.
C38_OneRecorder ==
  /\ Cardinality(voice.recording) <= 1
  /\ voice.lastOp = "stopped" => (voice.live = {} /\ ~voice.isRecording)

====
